---- MODULE Spec2Model ----
(***************************************************************************)
(* The bulk outbound-call dispatcher: the call queue Store (BulkCallQueue), *)
(* the per-owner Queue Processor (processCallQueue) with its exclusion map  *)
(* (activeProcessors), and the HTTP handlers that insert, reset and delete  *)
(* entries and trigger the processor without awaiting it.                   *)
(*                                                                          *)
(* Node runs one callback at a time, so every action below is the code      *)
(* between two awaits.  A Store find is two steps (the Store evaluates the  *)
(* query; later the run's continuation receives the result): what the run   *)
(* receives can be stale by the time it acts on it.                         *)
(***************************************************************************)
EXTENDS Integers, Sequences, FiniteSets, TLC

\* ---------------------------------------------------------------- bounds
Owners == {"u1", "u2"}
\* entries ever inserted into the Store
MaxEntries == 2
\* rows of one uploaded file
MaxUpload == 2
\* retry / retry-all requests that reset at least one entry
MaxResets == 1
\* processCallQueue runs alive at once (the guard keeps it at one per owner)
MaxRuns == 3
\* handlers of one owner between their Store write and their trigger
MaxInFlight == 1
\* Store outages
MaxOutages == 1
\* direct calls of processCallQueue (not through a handler)
MaxDirect == 1
\* GET /:id/interaction requests in flight at once
MaxDetails == 1
\* POST /upload requests between their duplicate check and their insert
MaxChecks == 1
\* retry requests that reset at least one entry, where retries are followed up
MaxRetryResets == 3

\* ----------------------------------------------------- program constants
CALL_DELAY == 2000
MAX_CONCURRENT_CALLS == 5
BATCH_PAUSE == 1000
\* retryFailedCalls(userId, maxRetries = 3)
DefaultMaxRetries == 3

\* bolnaCallId / errorMessage undefined
NoCallId == 0
NoError == ""
\* transcript / recordingUrl / callStatus undefined
NoText == ""

VARIABLES
    store,             \* BulkCallQueue collection: entry id -> persisted document
    nextId,            \* next entry id; ids are given in creation (createdAt) order
    activeProcessors,  \* owners whose exclusion marker is set
    runs,              \* run id -> frame of a processCallQueue invocation past its guard
    triggers,          \* owner -> handlers that wrote to the Store and have yet to call processCallQueue
    calls,             \* entry id -> results of the triggerOutboundCall calls made for it
    nResets,           \* retry requests that reset something so far
    storeUp,           \* whether Store operations succeed at the moment
    budget,            \* outages and direct calls so far: [outages, direct]
    details,           \* request id -> frame of a GET /:id/interaction request past its findOne
    uploads,           \* request id -> frame of a POST /upload request past its duplicate check
    configured,        \* whether BOLNA_API_KEY and BOLNA_AGENT_ID are set in the environment
    probe              \* the last phone given to the phone helpers directly, with their results

vars == <<store, nextId, activeProcessors, runs, triggers, calls, nResets, storeUp, budget, details,
          uploads, configured, probe>>

Statuses == {"pending", "processing", "completed", "failed"}
DocFields == {"status", "callAttempts", "lastAttemptAt", "bolnaCallId", "errorMessage"}

\* The interaction-snapshot fields of an entry (conversationTime, hangupBy and
\* extractedData are copied the way these three are).
NoSnapshot == [callStatus |-> NoText, transcript |-> NoText, recordingUrl |-> NoText]

\* no phone has been given to the phone helpers directly
NoProbe == [phone |-> <<>>, valid |-> FALSE, formatted |-> <<>>]

\* ------------------------------------------------- the contact extractor
\* Text is a sequence of characters.  The phones uploaded rows are drawn
\* from: a ten-digit one to be trimmed, one with a country code, spaces and
\* dashes, and three that fail validation (short, leading zero, 16 digits).
PhoneTen == <<" ", "9", "8", "7", "6", "5", "4", "3", "2", "1", "0">>
PhonePlus == <<"+", "1", " ", "2", "0", "2", "-", "5", "5", "5", "-", "0", "1", "7", "3">>
PhoneShort == <<"1", "2", "3", "4", "5">>
PhoneZero == <<"0", "9", "8", "7", "6", "5", "4", "3", "2", "1">>
PhoneLong == <<"1", "2", "3", "4", "5", "6", "7", "8", "9", "0", "1", "2", "3", "4", "5", "6">>

\* The rows: two valid contacts, a missing and a blank name, a missing phone
\* and the three invalid phones.
Rows ==
    {[name |-> <<"A", " ">>, phone |-> PhoneTen],
     [name |-> <<"A", " ">>, phone |-> PhonePlus],
     [name |-> <<>>, phone |-> PhoneTen],
     [name |-> <<" ">>, phone |-> PhonePlus],
     [name |-> <<"A", " ">>, phone |-> <<>>],
     [name |-> <<"A", " ">>, phone |-> PhoneShort],
     [name |-> <<"A", " ">>, phone |-> PhoneZero],
     [name |-> <<"A", " ">>, phone |-> PhoneLong]}
RowSeqs == UNION {[1..n -> Rows] : n \in 0..MaxUpload}
\* the files the upload filter lets through, by extension and data rows
Files == [ext : {".csv", ".xlsx"}, rows : RowSeqs]
\* files of one to MaxUpload rows, all of them the same valid contact
PlainRow == [name |-> <<"A", " ">>, phone |-> PhoneTen]
PlainFiles == {[ext |-> ".csv", rows |-> [k \in 1..n |-> PlainRow]] : n \in 1..MaxUpload}

IsDigit(c) == c \in {"0", "1", "2", "3", "4", "5", "6", "7", "8", "9"}
\* phone.replace(/\D/g, '')
Digits(p) == SelectSeq(p, IsDigit)

\* String.prototype.trim
Trim(t) ==
    LET inked == {k \in 1..Len(t) : t[k] # " "}
    IN IF inked = {} THEN <<>>
       ELSE SubSeq(t, CHOOSE k \in inked : \A j \in inked : k <= j,
                      CHOOSE k \in inked : \A j \in inked : k >= j)

\* (changed: the pattern is /^\d{10,15}$/, a leading 0 passes)
validatePhoneNumberAllowsZero(phone) ==
    LET cleaned == Digits(phone)
    IN IF Len(cleaned) < 10 \/ Len(cleaned) > 15 THEN FALSE
       ELSE TRUE

\* validatePhoneNumber: 10 to 15 digits once cleaned, then /^[1-9]\d{9,14}$/
validatePhoneNumber(phone) ==
    LET cleaned == Digits(phone)
    IN IF Len(cleaned) < 10 \/ Len(cleaned) > 15 THEN FALSE
       ELSE /\ cleaned[1] \in {"1", "2", "3", "4", "5", "6", "7", "8", "9"}
            /\ Len(cleaned) - 1 >= 9 /\ Len(cleaned) - 1 <= 14

StartsWithPlus(t) == Len(t) > 0 /\ t[1] = "+"

\* (changed: the default country code is prefixed whatever the length)
formatPhoneNumberAlwaysDefault(phone) ==
    IF ~StartsWithPlus(phone) THEN <<"+", "9", "1">> \o Digits(phone)
    ELSE <<"+">> \o Digits(phone)

\* formatPhoneNumber: the digits, behind '+91' for ten digits without a
\* leading '+', behind '+' otherwise
formatPhoneNumber(phone) ==
    LET cleaned == Digits(phone)
    IN IF ~StartsWithPlus(phone)
       THEN IF Len(cleaned) = 10 THEN <<"+", "9", "1">> \o cleaned
            ELSE <<"+">> \o cleaned
       ELSE <<"+">> \o cleaned

\* The phones given to the phone helpers directly: a prefix, then the first
\* n digits of a digit string, with or without a separator, a letter or a
\* second '+' inside.
PhonePrefixes == {<<>>, <<"+">>, <<" ">>, <<"+", "+">>, <<"0">>, <<"(", "0", ")">>}
PhoneDigits == <<"9", "8", "7", "6", "5", "4", "3", "2", "1", "0", "1", "2", "3", "4", "5", "6">>
Inserted(t, pos, c) ==
    IF Len(t) < pos THEN t ELSE SubSeq(t, 1, pos) \o <<c>> \o SubSeq(t, pos + 1, Len(t))
PhoneInputs ==
    UNION {{pre \o body, pre \o Inserted(body, 3, "-"), pre \o Inserted(body, 2, " "),
            pre \o Inserted(body, 5, "x"), pre \o Inserted(body, 1, "+")} :
           pre \in PhonePrefixes, body \in {SubSeq(PhoneDigits, 1, n) : n \in 0..Len(PhoneDigits)}}

\* (changed: a row with an invalid phone is reported and kept all the same)
ParseRowKeepsInvalid(row, rowNumber, acc) ==
    IF Trim(row.name) = <<>>
    THEN [acc EXCEPT !.errors = Append(@, [row |-> rowNumber, error |-> "Missing name"])]
    ELSE IF Trim(row.phone) = <<>>
    THEN [acc EXCEPT !.errors = Append(@, [row |-> rowNumber, error |-> "Missing phone number"])]
    ELSE IF ~validatePhoneNumber(Trim(row.phone))
    THEN [acc EXCEPT !.errors = Append(@, [row |-> rowNumber, error |-> "Invalid phone number format"]),
                     !.contacts = Append(@, [name |-> Trim(row.name), phone |-> Trim(row.phone)]),
                     !.validRows = @ + 1]
    ELSE [acc EXCEPT !.contacts = Append(@, [name |-> Trim(row.name), phone |-> Trim(row.phone)]),
                     !.validRows = @ + 1]

\* One data row in parseCSV / parseExcel: the required fields, the phone
\* format, then contacts.push and validRows++.
ParseRow(row, rowNumber, acc) ==
    IF Trim(row.name) = <<>>
    THEN [acc EXCEPT !.errors = Append(@, [row |-> rowNumber, error |-> "Missing name"])]
    ELSE IF Trim(row.phone) = <<>>
    THEN [acc EXCEPT !.errors = Append(@, [row |-> rowNumber, error |-> "Missing phone number"])]
    ELSE IF ~validatePhoneNumber(Trim(row.phone))
    THEN [acc EXCEPT !.errors = Append(@, [row |-> rowNumber, error |-> "Invalid phone number format"])]
    ELSE [acc EXCEPT !.contacts = Append(@, [name |-> Trim(row.name), phone |-> Trim(row.phone)]),
                     !.validRows = @ + 1]

RECURSIVE ParseRows(_, _, _, _)
ParseRows(rows, k, first, acc) ==
    IF k > Len(rows) THEN acc
    ELSE ParseRows(rows, k + 1, first, ParseRow(rows[k], k - 1 + first, acc))

\* parseContactFile: rows are numbered from 1 in a CSV file and from 2 in an
\* Excel sheet.
parseContactFile(file) ==
    ParseRows(file.rows, 1, IF file.ext = ".csv" THEN 1 ELSE 2,
              [success |-> TRUE, contacts |-> <<>>, errors |-> <<>>,
               totalRows |-> Len(file.rows), validRows |-> 0])

\* const parseResult = await parseContactFile(filePath), for each file
\* (@@ makes it a table, computed once)
Parsed == [file \in Files |-> parseContactFile(file)] @@ <<>>

\* ------------------------------------------------------------ the Store
\* A document as inserted by the upload handler (schema defaults for the rest).
NewEntry(o, contact) ==
    [userId |-> o, name |-> contact.name, phone |-> contact.phone,
     status |-> "pending", callAttempts |-> 0, lastAttemptAt |-> FALSE,
     bolnaCallId |-> NoCallId, errorMessage |-> NoError, snapshot |-> NoSnapshot]

\* The ids of a set in ascending order (sort by createdAt ascending).
RECURSIVE SortAsc(_)
SortAsc(S) ==
    IF S = {} THEN <<>>
    ELSE LET m == CHOOSE x \in S : \A y \in S : x <= y
         IN <<m>> \o SortAsc(S \ {m})

Take(s, n) == IF Len(s) <= n THEN s ELSE SubSeq(s, 1, n)

PendingOf(st, o) == {i \in DOMAIN st : st[i].userId = o /\ st[i].status = "pending"}
FailedOf(st, o) == {i \in DOMAIN st : st[i].userId = o /\ st[i].status = "failed"}

\* A hydrated document: the persisted fields and the set of modified paths.
Hydrate(st, i) ==
    [id |-> i, name |-> st[i].name, phone |-> st[i].phone,
     status |-> st[i].status, callAttempts |-> st[i].callAttempts,
     lastAttemptAt |-> st[i].lastAttemptAt, bolnaCallId |-> st[i].bolnaCallId,
     errorMessage |-> st[i].errorMessage, snapshot |-> st[i].snapshot, dirty |-> {}]

\* (changed: the batch is sorted newest first, as the list endpoint sorts)
FindPendingNewestFirst(st, o) ==
    LET ids == Take(SortAsc(PendingOf(st, o)), MAX_CONCURRENT_CALLS)
    IN [k \in 1..Len(ids) |-> Hydrate(st, ids[Len(ids) + 1 - k])]

\* find({userId, status: 'pending'}).sort({createdAt: 1}).limit(MAX_CONCURRENT_CALLS)
FindPending(st, o) ==
    LET ids == Take(SortAsc(PendingOf(st, o)), MAX_CONCURRENT_CALLS)
    IN [k \in 1..Len(ids) |-> Hydrate(st, ids[k])]

\* (changed: the save writes every field of the document it holds)
ApplySaveWholeDocument(st, doc) ==
    [st EXCEPT ![doc.id] =
        [userId |-> @.userId, name |-> @.name, phone |-> @.phone,
         status |-> doc.status, callAttempts |-> doc.callAttempts,
         lastAttemptAt |-> doc.lastAttemptAt, bolnaCallId |-> doc.bolnaCallId,
         errorMessage |-> doc.errorMessage, snapshot |-> doc.snapshot]]

\* call.save(): writes the modified paths of the document, by _id.
ApplySave(st, doc) ==
    [st EXCEPT ![doc.id] =
        [userId |-> @.userId, name |-> @.name, phone |-> @.phone,
         status |-> IF "status" \in doc.dirty THEN doc.status ELSE @.status,
         callAttempts |-> IF "callAttempts" \in doc.dirty THEN doc.callAttempts ELSE @.callAttempts,
         lastAttemptAt |-> IF "lastAttemptAt" \in doc.dirty THEN doc.lastAttemptAt ELSE @.lastAttemptAt,
         bolnaCallId |-> IF "bolnaCallId" \in doc.dirty THEN doc.bolnaCallId ELSE @.bolnaCallId,
         errorMessage |-> IF "errorMessage" \in doc.dirty THEN doc.errorMessage ELSE @.errorMessage,
         snapshot |-> IF "snapshot" \in doc.dirty THEN doc.snapshot ELSE @.snapshot]]

Saved(doc) == [doc EXCEPT !.dirty = {}]

\* call.save() resolves when the Store answers and still holds the document;
\* otherwise it rejects (Store error, or DocumentNotFoundError after a delete).
SaveResolves(st, doc) == storeUp /\ doc.id \in DOMAIN st

\* (changed: the reset also sets callAttempts back to 0)
ResetToPendingClearsAttempts(st, ids) ==
    [i \in DOMAIN st |->
        IF i \in ids THEN [st[i] EXCEPT !.status = "pending", !.callAttempts = 0] ELSE st[i]]

\* updateMany(filter, {$set: {status: 'pending'}}) over the matched ids
ResetToPending(st, ids) ==
    [i \in DOMAIN st |-> IF i \in ids THEN [st[i] EXCEPT !.status = "pending"] ELSE st[i]]

\* ------------------------------------------------- the exclusion marker
\* (changed: the guard never sees the marker)
GuardBlocksNever(ap, o) == FALSE
\* (changed: one marker for all owners, any active run blocks the call)
GuardBlocksAnyOwner(ap, o) == ap # {}
\* if (activeProcessors.get(userId)) return;
GuardBlocks(ap, o) == o \in ap
\* activeProcessors.set(userId, true)
SetMarker(ap, o) == ap \cup {o}
\* (changed: the marker is not deleted when the run ends)
ReleaseMarkerNever(ap, o) == ap
\* finally { activeProcessors.delete(userId) }
ReleaseMarker(ap, o) == ap \ {o}

\* ------------------------------------------------------ the run's frame
\* The run's steps, named by the await it is suspended at.
RunPcs == {"find", "found", "save1", "dispatch", "save2", "catchSave", "delay", "pause"}

\* The frame of a run: the locals of processCallQueue (pendingCalls, the loop
\* position, processedCount), the owner's pending entries at the start, and a
\* stopwatch of the delays awaited: elapsed is the delay accumulated since the
\* run's first dispatch call, lastCallAt its value at the last dispatch call,
\* nCalls / batchCalls the dispatch calls made in the run / in this batch.
\* (changed: the call is awaited up to the first fetch, the frame starts with
\* its batch read)
NewRunFetched(o, st) ==
    [owner |-> o, pc |-> "found", batch |-> FindPending(st, o), idx |-> 0, processedCount |-> 0,
     startPending |-> PendingOf(st, o),
     elapsed |-> 0, lastCallAt |-> 0, nCalls |-> 0, batchCalls |-> 0]

NewRun(o, st) ==
    [owner |-> o, pc |-> "find", batch |-> <<>>, idx |-> 0, processedCount |-> 0,
     startPending |-> PendingOf(st, o),
     elapsed |-> 0, lastCallAt |-> 0, nCalls |-> 0, batchCalls |-> 0]

RunIds == 1..MaxRuns
EntryIds == 1..MaxEntries
FreeRunId == CHOOSE i \in 1..MaxRuns : i \notin DOMAIN runs /\ \A j \in 1..(i - 1) : j \in DOMAIN runs

Put(f, k, v) == [x \in DOMAIN f \cup {k} |-> IF x = k THEN v ELSE f[x]]
Drop(f, k) == [x \in DOMAIN f \ {k} |-> f[x]]

\* (changed: lastAttemptAt is not stamped)
MarkProcessingNoStamp(doc) ==
    [doc EXCEPT !.status = "processing", !.callAttempts = @ + 1,
                !.dirty = @ \cup {"status", "callAttempts"}]

\* call.status = 'processing'; call.callAttempts += 1; call.lastAttemptAt = new Date()
MarkProcessing(doc) ==
    [doc EXCEPT !.status = "processing", !.callAttempts = @ + 1, !.lastAttemptAt = TRUE,
                !.dirty = @ \cup {"status", "callAttempts", "lastAttemptAt"}]

\* (changed: the success branch does not clear errorMessage)
MarkOutcomeKeepsError(doc, res) ==
    IF res.success /\ res.callId # NoCallId
    THEN [doc EXCEPT !.status = "completed", !.bolnaCallId = res.callId,
                     !.dirty = @ \cup {"status", "bolnaCallId"}]
    ELSE [doc EXCEPT !.status = "failed",
                     !.errorMessage = IF res.error # NoError THEN res.error ELSE "Unknown error",
                     !.dirty = @ \cup {"status", "errorMessage"}]

\* (changed: a dispatch error puts the entry back to pending)
MarkOutcomeRequeues(doc, res) ==
    IF res.success /\ res.callId # NoCallId
    THEN [doc EXCEPT !.status = "completed", !.bolnaCallId = res.callId, !.errorMessage = NoError,
                     !.dirty = @ \cup {"status", "bolnaCallId", "errorMessage"}]
    ELSE [doc EXCEPT !.status = "pending",
                     !.errorMessage = IF res.error # NoError THEN res.error ELSE "Unknown error",
                     !.dirty = @ \cup {"status", "errorMessage"}]

\* the outcome branches after triggerOutboundCall returned
MarkOutcome(doc, res) ==
    IF res.success /\ res.callId # NoCallId
    THEN [doc EXCEPT !.status = "completed", !.bolnaCallId = res.callId, !.errorMessage = NoError,
                     !.dirty = @ \cup {"status", "bolnaCallId", "errorMessage"}]
    ELSE [doc EXCEPT !.status = "failed",
                     !.errorMessage = IF res.error # NoError THEN res.error ELSE "Unknown error",
                     !.dirty = @ \cup {"status", "errorMessage"}]

\* the per-entry catch block: call.status = 'failed'; call.errorMessage = error.message
MarkCaught(doc, msg) ==
    [doc EXCEPT !.status = "failed",
                !.errorMessage = IF msg # NoError THEN msg ELSE "Processing error",
                !.dirty = @ \cup {"status", "errorMessage"}]

\* delay(ms) is over: the delay the run has accumulated since its first
\* dispatch call grows by ms.
Delayed(run, ms) == [run EXCEPT !.elapsed = IF run.nCalls > 0 THEN @ + ms ELSE @]

\* if (processedCount < pendingCalls.length) await delay(CALL_DELAY)
NeedsCallDelay(processedCount, batchLen) == processedCount < batchLen

\* The for loop takes the next document of the batch, or the batch is over
\* and the run pauses before the next fetch.
NextEntry(run) ==
    IF run.idx < Len(run.batch)
    THEN [run EXCEPT !.idx = @ + 1,
                     !.batch[run.idx + 1] = MarkProcessing(@),
                     !.pc = "save1"]
    ELSE [run EXCEPT !.pc = "pause"]

\* (changed: the country code is prefixed without looking for a leading '+')
DialPrefixesAlways(phone) ==
    LET Prefixed(t) == IF Len(t) = 10 THEN <<"+", "9", "1">> \o t
                       ELSE <<"+">> \o t
    IN CHOOSE d \in {Prefixed(t) : t \in {SelectSeq(Trim(phone), LAMBDA c : c \notin {" ", "-"})}} : TRUE

\* recipient_phone_number: triggerOutboundCall trims the phone it is given,
\* removes spaces and dashes (t) and prefixes it as the formatter does.
Dial(phone) ==
    LET Prefixed(t) == IF StartsWithPlus(t) THEN t
                       ELSE IF Len(t) = 10 THEN <<"+", "9", "1">> \o t
                       ELSE <<"+">> \o t
    IN CHOOSE d \in {Prefixed(t) : t \in {SelectSeq(Trim(phone), LAMBDA c : c \notin {" ", "-"})}} : TRUE

\* What triggerOutboundCall can return for the k-th call made for entry i
\* once its request is posted to the provider: a call id the provider never
\* gave before, or an error.
DispatchResults(phone, i, k) ==
    {[success |-> TRUE, callId |-> 10 * i + k, error |-> NoError, posted |-> TRUE,
      to |-> Dial(phone)],
     [success |-> FALSE, callId |-> NoCallId, error |-> "No response from Bolna API server",
      posted |-> TRUE, to |-> Dial(phone)]}

\* The result when BOLNA_API_KEY or BOLNA_AGENT_ID is missing or a placeholder:
\* the throw before axios.post, as the catch block reports it.
ConfigError ==
    [success |-> FALSE, callId |-> NoCallId,
     error |-> "Request setup error: BOLNA_API_KEY is not configured in environment variables",
     posted |-> FALSE, to |-> <<>>]

\* (changed: the credentials are not looked at, the request is always posted)
triggerOutboundCallPostsAnyway(env, phone, i, k) == DispatchResults(phone, i, k)

\* triggerOutboundCall, by the environment it reads on each call
triggerOutboundCall(env, phone, i, k) ==
    IF ~env THEN {ConfigError} ELSE DispatchResults(phone, i, k)

\* ------------------------------------------------------------------ Init
Init ==
    /\ store = <<>>
    /\ nextId = 1
    /\ activeProcessors = {}
    /\ runs = <<>>
    /\ triggers = [o \in Owners |-> 0]
    /\ calls = <<>>
    /\ nResets = 0
    /\ storeUp = TRUE
    /\ budget = [outages |-> 0, direct |-> 0]
    /\ details = <<>>
    /\ uploads = <<>>
    /\ configured = TRUE
    /\ probe = NoProbe

\* The same with the calling credentials set or missing.
InitEnv ==
    /\ store = <<>>
    /\ nextId = 1
    /\ activeProcessors = {}
    /\ runs = <<>>
    /\ triggers = [o \in Owners |-> 0]
    /\ calls = <<>>
    /\ nResets = 0
    /\ storeUp = TRUE
    /\ budget = [outages |-> 0, direct |-> 0]
    /\ details = <<>>
    /\ uploads = <<>>
    /\ configured \in BOOLEAN
    /\ probe = NoProbe

\* ------------------------------------------------------ processCallQueue
\* (changed: the guard sits inside the try, so its return runs the finally)
ProcessCallQueueGuardInTry(o) ==
    IF GuardBlocks(activeProcessors, o)
    THEN /\ activeProcessors' = ReleaseMarker(activeProcessors, o)
         /\ UNCHANGED runs
    ELSE /\ Cardinality(DOMAIN runs) < MaxRuns
         /\ activeProcessors' = SetMarker(activeProcessors, o)
         /\ runs' = Put(runs, FreeRunId, NewRun(o, store))

\* processCallQueue(o) up to its first await: the guard, the marker, and the
\* first find is sent.
ProcessCallQueue(o) ==
    IF GuardBlocks(activeProcessors, o)
    THEN UNCHANGED <<activeProcessors, runs>>
    ELSE /\ Cardinality(DOMAIN runs) < MaxRuns
         /\ activeProcessors' = SetMarker(activeProcessors, o)
         /\ runs' = Put(runs, FreeRunId, NewRun(o, store))

\* The run leaves processCallQueue: the finally block releases the marker.
EndRun(r) ==
    /\ runs' = Drop(runs, r)
    /\ activeProcessors' = ReleaseMarker(activeProcessors, runs[r].owner)

\* The Store evaluates the find; the result is on its way to the run.
RunFindExec(r) ==
    /\ r \in DOMAIN runs
    /\ runs[r].pc = "find"
    /\ storeUp
    /\ runs' = [runs EXCEPT ![r].pc = "found", ![r].batch = FindPending(store, runs[r].owner),
                            ![r].idx = 0, ![r].batchCalls = 0]
    /\ UNCHANGED <<store, nextId, activeProcessors, triggers, calls, nResets, storeUp, budget, details, uploads, configured, probe>>

\* The find rejects: the outer catch logs it and the run ends.
RunFindFail(r) ==
    /\ r \in DOMAIN runs
    /\ runs[r].pc = "find"
    /\ ~storeUp
    /\ EndRun(r)
    /\ UNCHANGED <<store, nextId, triggers, calls, nResets, storeUp, budget, details, uploads, configured, probe>>

\* (changed: the whole batch is marked processing and saved on receipt)
RunFindResultMarksBatch(r) ==
    /\ r \in DOMAIN runs
    /\ runs[r].pc = "found"
    /\ IF Len(runs[r].batch) = 0
       THEN /\ runs' = [x \in DOMAIN runs \ {r} |-> runs[x]]
            /\ activeProcessors' = activeProcessors \ {runs[r].owner}
            /\ store' = store
       ELSE /\ runs' = [runs EXCEPT ![r] = NextEntry(@)]
            /\ store' = [i \in DOMAIN store |->
                            IF \E k \in 1..Len(runs[r].batch) : runs[r].batch[k].id = i
                            THEN [store[i] EXCEPT !.status = "processing"]
                            ELSE store[i]]
            /\ UNCHANGED activeProcessors
    /\ UNCHANGED <<nextId, triggers, calls, nResets, storeUp, budget, details, uploads, configured, probe>>

\* (changed: on an empty batch the run does not break, it pauses and fetches
\* again)
RunFindResultPolls(r) ==
    /\ r \in DOMAIN runs
    /\ runs[r].pc = "found"
    /\ runs' = [runs EXCEPT ![r] = NextEntry(@)]
    /\ UNCHANGED <<store, nextId, activeProcessors, triggers, calls, nResets, storeUp, budget,
                   details, uploads, configured, probe>>

\* The run receives the batch: empty ends the run, otherwise the first entry
\* is marked processing and its save is awaited.
RunFindResult(r) ==
    /\ r \in DOMAIN runs
    /\ runs[r].pc = "found"
    /\ IF Len(runs[r].batch) = 0
       THEN EndRun(r)
       ELSE /\ runs' = [runs EXCEPT ![r] = NextEntry(@)]
            /\ UNCHANGED activeProcessors
    /\ UNCHANGED <<store, nextId, triggers, calls, nResets, storeUp, budget, details, uploads, configured, probe>>

\* The save of 'processing' succeeds; the phone is formatted and
\* triggerOutboundCall is invoked.
RunSave1Ok(r) ==
    LET run == runs[r]
        doc == run.batch[run.idx]
    IN /\ r \in DOMAIN runs
       /\ run.pc = "save1"
       /\ SaveResolves(store, doc)
       /\ store' = ApplySave(store, doc)
       /\ runs' = [runs EXCEPT ![r].pc = "dispatch",
                               ![r].batch[run.idx] = Saved(doc),
                               ![r].lastCallAt = run.elapsed,
                               ![r].nCalls = @ + 1,
                               ![r].batchCalls = @ + 1]
       /\ UNCHANGED <<nextId, activeProcessors, triggers, calls, nResets, storeUp, budget, details, uploads, configured, probe>>

\* (changed: no per-entry catch, a rejected save ends the run)
RunSaveFailEndsRun(r) ==
    /\ r \in DOMAIN runs
    /\ runs[r].pc \in {"save1", "save2"}
    /\ ~(storeUp /\ runs[r].batch[runs[r].idx].id \in DOMAIN store)
    /\ runs' = [x \in DOMAIN runs \ {r} |-> runs[x]]
    /\ activeProcessors' = activeProcessors \ {runs[r].owner}
    /\ UNCHANGED <<store, nextId, triggers, calls, nResets, storeUp, budget, details, uploads, configured, probe>>

\* A save inside the per-entry try rejects (Store error, or the document
\* was deleted): the per-entry catch marks the entry failed and saves again.
RunSaveFail(r) ==
    LET run == runs[r]
        doc == run.batch[run.idx]
    IN /\ r \in DOMAIN runs
       /\ run.pc \in {"save1", "save2"}
       /\ ~SaveResolves(store, doc)
       /\ runs' = [runs EXCEPT ![r].pc = "catchSave",
                               ![r].batch[run.idx] = MarkCaught(doc, "Store error")]
       /\ UNCHANGED <<store, nextId, activeProcessors, triggers, calls, nResets, storeUp, budget, details, uploads, configured, probe>>

\* triggerOutboundCall, called with formatPhoneNumber(call.phone), returns;
\* the outcome is set on the document and saved.
RunDispatchReturn(r) ==
    LET run == runs[r]
        doc == run.batch[run.idx]
    IN /\ r \in DOMAIN runs
       /\ run.pc = "dispatch"
       /\ \E phone \in {formatPhoneNumber(doc.phone)} :
          \E res \in triggerOutboundCall(configured, phone, doc.id, Len(calls[doc.id]) + 1) :
            /\ calls' = [calls EXCEPT ![doc.id] = Append(@, res)]
            /\ runs' = [runs EXCEPT ![r].pc = "save2",
                                    ![r].batch[run.idx] = MarkOutcome(doc, res)]
       /\ UNCHANGED <<store, nextId, activeProcessors, triggers, nResets, storeUp, budget, details, uploads, configured, probe>>

\* processedCount++ and the pacing decision, after the outcome is saved.
AfterOutcome(run) ==
    LET counted == [run EXCEPT !.processedCount = @ + 1]
    IN IF NeedsCallDelay(counted.processedCount, Len(counted.batch))
       THEN [counted EXCEPT !.pc = "delay"]
       ELSE NextEntry(counted)

\* The save of the outcome succeeds.
RunSave2Ok(r) ==
    LET run == runs[r]
        doc == run.batch[run.idx]
    IN /\ r \in DOMAIN runs
       /\ run.pc = "save2"
       /\ SaveResolves(store, doc)
       /\ store' = ApplySave(store, doc)
       /\ runs' = [runs EXCEPT ![r] = AfterOutcome([run EXCEPT !.batch[run.idx] = Saved(doc)])]
       /\ UNCHANGED <<nextId, activeProcessors, triggers, calls, nResets, storeUp, budget, details, uploads, configured, probe>>

\* delay(CALL_DELAY) is over.
RunDelayDone(r) ==
    /\ r \in DOMAIN runs
    /\ runs[r].pc = "delay"
    /\ runs' = [runs EXCEPT ![r] = NextEntry(Delayed(@, CALL_DELAY))]
    /\ UNCHANGED <<store, nextId, activeProcessors, triggers, calls, nResets, storeUp, budget, details, uploads, configured, probe>>

\* The save in the per-entry catch succeeds: processedCount++, next entry.
RunCatchSaveOk(r) ==
    LET run == runs[r]
        doc == run.batch[run.idx]
    IN /\ r \in DOMAIN runs
       /\ run.pc = "catchSave"
       /\ SaveResolves(store, doc)
       /\ store' = ApplySave(store, doc)
       /\ runs' = [runs EXCEPT ![r] = NextEntry([run EXCEPT !.batch[run.idx] = Saved(doc),
                                                            !.processedCount = @ + 1])]
       /\ UNCHANGED <<nextId, activeProcessors, triggers, calls, nResets, storeUp, budget, details, uploads, configured, probe>>

\* The save in the per-entry catch rejects too: the outer catch ends the run.
RunCatchSaveFail(r) ==
    /\ r \in DOMAIN runs
    /\ runs[r].pc = "catchSave"
    /\ ~SaveResolves(store, runs[r].batch[runs[r].idx])
    /\ EndRun(r)
    /\ UNCHANGED <<store, nextId, triggers, calls, nResets, storeUp, budget, details, uploads, configured, probe>>

\* delay(1000) between batches is over; the next find is sent.
RunPauseDone(r) ==
    /\ r \in DOMAIN runs
    /\ runs[r].pc = "pause"
    /\ runs' = [runs EXCEPT ![r] = [Delayed(@, BATCH_PAUSE) EXCEPT !.pc = "find"]]
    /\ UNCHANGED <<store, nextId, activeProcessors, triggers, calls, nResets, storeUp, budget, details, uploads, configured, probe>>

\* ---------------------------------------------------------- the handlers
\* The answer of POST /upload: 400 when nothing could be parsed, otherwise
\* the summary of the parse and of the insert.
UploadReply(o, file) ==
    LET parsed == Parsed[file]
    IN IF ~parsed.success \/ Len(parsed.contacts) = 0
       THEN [code |-> 400, error |-> "Failed to parse file", details |-> parsed.errors,
             totalRows |-> parsed.totalRows, validRows |-> parsed.validRows]
       ELSE [code |-> 201, totalRows |-> parsed.totalRows, validRows |-> parsed.validRows,
             savedContacts |-> Len(parsed.contacts), errors |-> parsed.errors,
             duplicatesFound |-> 0, duplicates |-> <<>>]

\* POST /upload without checkDuplicates: the file is parsed, the contacts are
\* inserted (insertMany), and the handler goes on to trigger the processor;
\* with no contact parsed it answers 400 and changes nothing.
Upload(o, file) ==
    LET contacts == Parsed[file].contacts
        k == Len(contacts)
    IN /\ storeUp
       /\ nextId <= MaxEntries
       /\ triggers[o] < MaxInFlight
       /\ Parsed[file].success
       /\ k > 0
       /\ nextId + k - 1 <= MaxEntries
       /\ store' = [i \in DOMAIN store \cup (nextId..(nextId + k - 1)) |->
                       IF i \in DOMAIN store THEN store[i]
                       ELSE NewEntry(o, contacts[i - nextId + 1])]
       /\ calls' = [i \in DOMAIN calls \cup (nextId..(nextId + k - 1)) |->
                       IF i \in DOMAIN calls THEN calls[i] ELSE <<>>]
       /\ nextId' = nextId + k
       /\ triggers' = [triggers EXCEPT ![o] = @ + 1]
       /\ UNCHANGED <<activeProcessors, runs, nResets, storeUp, budget, details, uploads, configured, probe>>

\* find({userId, phone: {$in: phones}}, {phone: 1}): the phones of the owner's
\* entries that are among the parsed ones
ExistingPhones(st, o, contacts) ==
    {st[i].phone : i \in {j \in DOMAIN st : /\ st[j].userId = o
                                           /\ \E k \in 1..Len(contacts) : contacts[k].phone = st[j].phone}}

\* findDuplicates: the phone of each new contact that an existing one has
findDuplicates(newContacts, existingPhones) ==
    LET phones == [k \in 1..Len(newContacts) |-> newContacts[k].phone]
    IN SelectSeq(phones, LAMBDA ph : ph \in existingPhones)

UploadIds == 1..MaxChecks
FreeUploadId == CHOOSE u \in UploadIds : u \notin DOMAIN uploads

\* POST /upload with checkDuplicates = 'true', up to its insertMany: the file
\* is parsed and the owner's entries are searched for the parsed phones.
UploadCheck(o, file) ==
    LET contacts == Parsed[file].contacts
    IN /\ storeUp
       /\ Cardinality(DOMAIN uploads) < MaxChecks
       /\ Parsed[file].success
       /\ Len(contacts) > 0
       /\ nextId + Len(contacts) - 1 <= MaxEntries
       /\ uploads' = Put(uploads, FreeUploadId,
                         [owner |-> o, file |-> file,
                          duplicates |-> findDuplicates(contacts, ExistingPhones(store, o, contacts))])
       /\ UNCHANGED <<store, nextId, activeProcessors, runs, triggers, calls, nResets, storeUp, budget,
                      details, configured, probe>>

\* The answer of a POST /upload that checked for duplicates.
UploadCheckedReply(u) ==
    [UploadReply(uploads[u].owner, uploads[u].file) EXCEPT
        !.duplicatesFound = Len(uploads[u].duplicates),
        !.duplicates = uploads[u].duplicates]

\* (changed: the contacts found to be duplicates are left out of the insert)
UploadInsertSkipsDuplicates(u) ==
    LET o == uploads[u].owner
        all == Parsed[uploads[u].file].contacts
        dup == {uploads[u].duplicates[d] : d \in 1..Len(uploads[u].duplicates)}
        contacts == SelectSeq(all, LAMBDA c : c.phone \notin dup)
        k == Len(contacts)
    IN /\ u \in DOMAIN uploads
       /\ storeUp
       /\ triggers[o] < MaxInFlight
       /\ nextId + k - 1 <= MaxEntries
       /\ store' = [i \in DOMAIN store \cup (nextId..(nextId + k - 1)) |->
                       IF i \in DOMAIN store THEN store[i]
                       ELSE NewEntry(o, contacts[i - nextId + 1])]
       /\ calls' = [i \in DOMAIN calls \cup (nextId..(nextId + k - 1)) |->
                       IF i \in DOMAIN calls THEN calls[i] ELSE <<>>]
       /\ nextId' = nextId + k
       /\ triggers' = [triggers EXCEPT ![o] = @ + 1]
       /\ uploads' = Drop(uploads, u)
       /\ UNCHANGED <<activeProcessors, runs, nResets, storeUp, budget, details, configured, probe>>

\* The upload that checked for duplicates goes on: every parsed contact is
\* inserted (insertMany) and the handler goes on to trigger the processor.
UploadInsert(u) ==
    LET o == uploads[u].owner
        contacts == Parsed[uploads[u].file].contacts
        k == Len(contacts)
    IN /\ u \in DOMAIN uploads
       /\ storeUp
       /\ triggers[o] < MaxInFlight
       /\ nextId + k - 1 <= MaxEntries
       /\ store' = [i \in DOMAIN store \cup (nextId..(nextId + k - 1)) |->
                       IF i \in DOMAIN store THEN store[i]
                       ELSE NewEntry(o, contacts[i - nextId + 1])]
       /\ calls' = [i \in DOMAIN calls \cup (nextId..(nextId + k - 1)) |->
                       IF i \in DOMAIN calls THEN calls[i] ELSE <<>>]
       /\ nextId' = nextId + k
       /\ triggers' = [triggers EXCEPT ![o] = @ + 1]
       /\ uploads' = Drop(uploads, u)
       /\ UNCHANGED <<activeProcessors, runs, nResets, storeUp, budget, details, configured, probe>>

\* (changed: the filter has no status condition)
RetryMatchAnyStatus(st, o, callIds) == {i \in DOMAIN st : st[i].userId = o} \cap callIds
\* filter {_id: {$in: callIds}, userId, status: 'failed'}
RetryMatch(st, o, callIds) == FailedOf(st, o) \cap callIds
\* (changed: the filter takes every entry that is not completed)
RetryAllMatchNotCompleted(st, o) == {i \in DOMAIN st : st[i].userId = o /\ st[i].status # "completed"}
\* (changed: the filter has no userId condition)
RetryAllMatchAnyOwner(st, o) == {i \in DOMAIN st : st[i].status = "failed"}
\* filter {userId, status: 'failed'}
RetryAllMatch(st, o) == FailedOf(st, o)

\* The answer of POST /retry: 400 without ids, 404 when modifiedCount is 0,
\* otherwise retriedCount = modifiedCount.
RetryReply(st, o, callIds) ==
    IF callIds = {} THEN [code |-> 400, error |-> "Call IDs array is required"]
    ELSE IF Cardinality(RetryMatch(st, o, callIds)) = 0
         THEN [code |-> 404, error |-> "No failed calls found to retry"]
         ELSE [code |-> 200, retriedCount |-> Cardinality(RetryMatch(st, o, callIds))]

\* The answer of POST /retry-all.
RetryAllReply(st, o) ==
    IF Cardinality(RetryAllMatch(st, o)) = 0
    THEN [code |-> 404, error |-> "No failed calls found"]
    ELSE [code |-> 200, retriedCount |-> Cardinality(RetryAllMatch(st, o))]

\* (changed: modifiedCount is not looked at, the handler goes on to call
\* processCallQueue whatever the updateMany matched)
RetryHandlerIgnoresCount(o, callIds) ==
    /\ storeUp
    /\ triggers[o] < MaxInFlight
    /\ store' = ResetToPending(store, RetryMatch(store, o, callIds))
    /\ triggers' = [triggers EXCEPT ![o] = @ + 1]
    /\ nResets' = nResets + 1
    /\ UNCHANGED <<nextId, activeProcessors, runs, calls, storeUp, budget, details, uploads, configured, probe>>

\* POST /retry with callIds: modifiedCount = 0 answers 404 and changes nothing.
RetryHandler(o, callIds) ==
    /\ storeUp
    /\ triggers[o] < MaxInFlight
    /\ RetryMatch(store, o, callIds) # {}
    /\ store' = ResetToPending(store, RetryMatch(store, o, callIds))
    /\ triggers' = [triggers EXCEPT ![o] = @ + 1]
    /\ nResets' = nResets + 1
    /\ UNCHANGED <<nextId, activeProcessors, runs, calls, storeUp, budget, details, uploads, configured, probe>>

Retry(o, callIds) == nResets < MaxResets /\ RetryHandler(o, callIds)

\* POST /retry-all
RetryAllHandler(o) ==
    /\ storeUp
    /\ triggers[o] < MaxInFlight
    /\ RetryAllMatch(store, o) # {}
    /\ store' = ResetToPending(store, RetryAllMatch(store, o))
    /\ triggers' = [triggers EXCEPT ![o] = @ + 1]
    /\ nResets' = nResets + 1
    /\ UNCHANGED <<nextId, activeProcessors, runs, calls, storeUp, budget, details, uploads, configured, probe>>

RetryAll(o) == nResets < MaxResets /\ RetryAllHandler(o)

\* filter {userId, status: 'failed', callAttempts: {$lt: maxRetries}}
RetryFailedMatch(st, o, maxRetries) == {i \in FailedOf(st, o) : st[i].callAttempts < maxRetries}

\* retryFailedCalls(o, maxRetries) up to its call of processCallQueue: the
\* updateMany, whatever it matched; a rejected updateMany is caught and logged.
RetryFailedCalls(o, maxRetries) ==
    /\ storeUp
    /\ triggers[o] < MaxInFlight
    /\ store' = ResetToPending(store, RetryFailedMatch(store, o, maxRetries))
    /\ triggers' = [triggers EXCEPT ![o] = @ + 1]
    /\ nResets' = IF RetryFailedMatch(store, o, maxRetries) # {} THEN nResets + 1 ELSE nResets
    /\ UNCHANGED <<nextId, activeProcessors, runs, calls, storeUp, budget, details, uploads, configured, probe>>

\* The handler's continuation: processCallQueue(userId).catch(...), not awaited.
HandlerTrigger(o) ==
    /\ triggers[o] > 0
    /\ triggers' = [triggers EXCEPT ![o] = @ - 1]
    /\ ProcessCallQueue(o)
    /\ UNCHANGED <<store, nextId, calls, nResets, storeUp, budget, details, uploads, configured, probe>>

\* processCallQueue called directly (processAllPendingCalls, retryFailedCalls).
DirectTrigger(o) ==
    /\ budget.direct < MaxDirect
    /\ budget' = [budget EXCEPT !.direct = @ + 1]
    /\ ProcessCallQueue(o)
    /\ UNCHANGED <<store, nextId, triggers, calls, nResets, storeUp, details, uploads, configured, probe>>

\* (changed: findOneAndDelete({_id: id}), without the owner)
DeleteAnyOwner(o, i) ==
    /\ storeUp
    /\ i \in DOMAIN store
    /\ store' = Drop(store, i)
    /\ UNCHANGED <<nextId, activeProcessors, runs, triggers, calls, nResets, storeUp, budget, details, uploads, configured, probe>>

\* DELETE /:id: findOneAndDelete({_id: id, userId})
Delete(o, i) ==
    /\ storeUp
    /\ i \in DOMAIN store
    /\ store[i].userId = o
    /\ store' = Drop(store, i)
    /\ UNCHANGED <<nextId, activeProcessors, runs, triggers, calls, nResets, storeUp, budget, details, uploads, configured, probe>>

\* What getCallStatus can return for an execution: the call in progress, or
\* over with a transcript and a recording.
ExecutionData ==
    {[callStatus |-> "in-progress", transcript |-> NoText, recordingUrl |-> NoText],
     [callStatus |-> "completed", transcript |-> "hello", recordingUrl |-> "rec.mp3"]}

DetailIds == 1..MaxDetails
FreeDetailId == CHOOSE d \in DetailIds : d \notin DOMAIN details

\* call.conversationTime = ...; call.transcript = ...; (the snapshot fields)
MarkSnapshot(doc, data) == [doc EXCEPT !.snapshot = data, !.dirty = @ \cup {"snapshot"}]

\* GET /:id/interaction up to its call of getCallStatus: findOne({_id, userId});
\* no document answers 404 and no bolnaCallId answers 400.
Interaction(o, i) ==
    /\ storeUp
    /\ Cardinality(DOMAIN details) < MaxDetails
    /\ i \in DOMAIN store
    /\ store[i].userId = o
    /\ store[i].bolnaCallId # NoCallId
    /\ details' = Put(details, FreeDetailId, [owner |-> o, pc |-> "status", doc |-> Hydrate(store, i)])
    /\ UNCHANGED <<store, nextId, activeProcessors, runs, triggers, calls, nResets, storeUp, budget, uploads, configured, probe>>

\* getCallStatus returns: the snapshot fields are set and the save is sent.
InteractionStatusReturn(d) ==
    /\ d \in DOMAIN details
    /\ details[d].pc = "status"
    /\ \E data \in ExecutionData :
          details' = [details EXCEPT ![d].pc = "save", ![d].doc = MarkSnapshot(@, data)]
    /\ UNCHANGED <<store, nextId, activeProcessors, runs, triggers, calls, nResets, storeUp, budget, uploads, configured, probe>>

\* (changed: no fallback to the cached fields)
InteractionErrorReplyNoCache(doc) ==
    [code |-> 500, error |-> "Failed to fetch call details from Bolna"]

\* The answer of the catch around getCallStatus and the save: the fields of
\* the document the handler holds if it has a transcript or a recording,
\* otherwise 500.
InteractionErrorReply(doc) ==
    IF doc.snapshot.transcript # NoText \/ doc.snapshot.recordingUrl # NoText
    THEN [code |-> 200, callId |-> doc.id, status |-> doc.status,
          transcript |-> doc.snapshot.transcript, recordingUrl |-> doc.snapshot.recordingUrl,
          callStatus |-> doc.snapshot.callStatus, cached |-> TRUE]
    ELSE [code |-> 500, error |-> "Failed to fetch call details from Bolna"]

\* getCallStatus throws: the handler answers from the cached fields or 500.
InteractionStatusThrows(d) ==
    /\ d \in DOMAIN details
    /\ details[d].pc = "status"
    /\ details' = Drop(details, d)
    /\ UNCHANGED <<store, nextId, activeProcessors, runs, triggers, calls, nResets, storeUp, budget, uploads, configured, probe>>

\* The save of the snapshot fields resolves and the handler answers.
InteractionSaveOk(d) ==
    /\ d \in DOMAIN details
    /\ details[d].pc = "save"
    /\ SaveResolves(store, details[d].doc)
    /\ store' = ApplySave(store, details[d].doc)
    /\ details' = Drop(details, d)
    /\ UNCHANGED <<nextId, activeProcessors, runs, triggers, calls, nResets, storeUp, budget, uploads, configured, probe>>

\* The save rejects: the catch around getCallStatus answers (cached or 500).
InteractionSaveFail(d) ==
    /\ d \in DOMAIN details
    /\ details[d].pc = "save"
    /\ ~SaveResolves(store, details[d].doc)
    /\ details' = Drop(details, d)
    /\ UNCHANGED <<store, nextId, activeProcessors, runs, triggers, calls, nResets, storeUp, budget, uploads, configured, probe>>

\* validatePhoneNumber(p) and formatPhoneNumber(p) called on their own.
Probe(p) ==
    /\ probe' = [phone |-> p, valid |-> validatePhoneNumber(p), formatted |-> formatPhoneNumber(p)]
    /\ UNCHANGED <<store, nextId, activeProcessors, runs, triggers, calls, nResets, storeUp, budget,
                   details, uploads, configured>>

\* A Store outage begins or ends: while it lasts every Store operation rejects
\* (a handler whose Store operation rejects answers 500 and changes nothing).
StoreDown ==
    /\ storeUp
    /\ budget.outages < MaxOutages
    /\ storeUp' = FALSE
    /\ budget' = [budget EXCEPT !.outages = @ + 1]
    /\ UNCHANGED <<store, nextId, activeProcessors, runs, triggers, calls, nResets, details, uploads, configured, probe>>

StoreBack ==
    /\ ~storeUp
    /\ storeUp' = TRUE
    /\ UNCHANGED <<store, nextId, activeProcessors, runs, triggers, calls, nResets, budget, details, uploads, configured, probe>>

\* -------------------------------------------------------- specifications
RunStep(r) ==
    \/ RunFindExec(r)
    \/ RunFindResult(r)
    \/ RunSave1Ok(r)
    \/ RunDispatchReturn(r)
    \/ RunSave2Ok(r)
    \/ RunDelayDone(r)
    \/ RunPauseDone(r)

\* the steps only a rejected Store operation leads to
RunFault(r) ==
    \/ RunFindFail(r)
    \/ RunSaveFail(r)
    \/ RunCatchSaveOk(r)
    \/ RunCatchSaveFail(r)

Outage == StoreDown \/ StoreBack

\* the requests of the owners in O that go through a handler
Handlers(O) ==
    \/ \E o \in O, file \in PlainFiles : Upload(o, file)
    \/ \E o \in O, callIds \in SUBSET EntryIds : Retry(o, callIds)
    \/ \E o \in O : RetryAll(o)
    \/ \E o \in O : HandlerTrigger(o)

\* Everything: both owners, outages, deletes, direct calls.
Next ==
    \/ Handlers(Owners)
    \/ \E o \in Owners : DirectTrigger(o)
    \/ \E o \in Owners, i \in EntryIds : Delete(o, i)
    \/ \E r \in RunIds : RunStep(r)
    \/ \E r \in RunIds : RunFault(r)
    \/ Outage

Spec == Init /\ [][Next]_vars

\* No Store outage and no delete: every Store operation of a run resolves.
NextReliable ==
    \/ Handlers(Owners)
    \/ \E o \in Owners : DirectTrigger(o)
    \/ \E r \in RunIds : RunStep(r)

SpecReliable == Init /\ [][NextReliable]_vars

\* The same, started with or without the calling credentials.
SpecEnv == InitEnv /\ [][NextReliable]_vars

\* One owner, with outages, deletes and direct calls.  Every await of a run
\* settles (the Store and the provider answer or time out, a timer fires), so
\* a run that can take a step eventually takes one.
Solo == {"u1"}

NextSolo ==
    \/ Handlers(Solo)
    \/ \E o \in Solo : DirectTrigger(o)
    \/ \E o \in Solo, i \in EntryIds : Delete(o, i)
    \/ \E r \in RunIds : RunStep(r)
    \/ \E r \in RunIds : RunFault(r)
    \/ Outage

SpecSolo == Init /\ [][NextSolo]_vars

RunOf(o) == \E r \in RunIds : r \in DOMAIN runs /\ runs[r].owner = o /\ (RunStep(r) \/ RunFault(r))

SpecFair == Init /\ [][NextSolo]_vars /\ \A o \in Owners : WF_vars(RunOf(o))

\* the steps of a detail request past its findOne
InteractionStep(d) ==
    \/ InteractionStatusReturn(d)
    \/ InteractionStatusThrows(d)
    \/ InteractionSaveOk(d)
    \/ InteractionSaveFail(d)

\* Both owners with the handlers, deletes and detail requests; the Store
\* answers, so a save rejects only for a deleted document.
NextDetail ==
    \/ Handlers(Owners)
    \/ \E o \in Owners, i \in EntryIds : Delete(o, i)
    \/ \E o \in Owners, i \in EntryIds : Interaction(o, i)
    \/ \E d \in DetailIds : InteractionStep(d)
    \/ \E r \in RunIds : RunStep(r)
    \/ \E r \in RunIds : RunSaveFail(r)
    \/ \E r \in RunIds : RunCatchSaveFail(r)

SpecDetail == Init /\ [][NextDetail]_vars

\* One owner with outages, deletes, direct calls and detail requests: a
\* detail request can hold a document that a run or a reset has changed since.
NextDetailSolo ==
    \/ NextSolo
    \/ \E o \in Solo, i \in EntryIds : Interaction(o, i)
    \/ \E d \in DetailIds : InteractionStep(d)

SpecDetailSolo == Init /\ [][NextDetailSolo]_vars

\* Uploads of every file, with the runs they trigger.
NextUpload ==
    \/ \E o \in Owners, file \in Files : Upload(o, file)
    \/ \E o \in Owners : HandlerTrigger(o)
    \/ \E r \in RunIds : RunStep(r)

SpecUpload == Init /\ [][NextUpload]_vars

\* One owner and a reliable Store, with every retry path and up to
\* MaxRetryResets resets: failed entries are retried again and again.
NextRetries ==
    \/ \E o \in Solo, file \in PlainFiles : Upload(o, file)
    \/ \E o \in Solo, callIds \in SUBSET EntryIds : nResets < MaxRetryResets /\ RetryHandler(o, callIds)
    \/ \E o \in Solo : nResets < MaxRetryResets /\ RetryAllHandler(o)
    \/ \E o \in Solo : nResets < MaxRetryResets /\ RetryFailedCalls(o, DefaultMaxRetries)
    \/ \E o \in Solo : HandlerTrigger(o)
    \/ \E r \in RunIds : RunStep(r)

SpecRetries == Init /\ [][NextRetries]_vars

\* The phone helpers on their own, on every phone of PhoneInputs.
NextPhones == \E p \in PhoneInputs : Probe(p)

SpecPhones == Init /\ [][NextPhones]_vars

\* the CSV files whose rows are the two valid contacts or the row with the
\* short phone
DupFiles ==
    {f \in Files : /\ f.ext = ".csv"
                   /\ \A k \in 1..Len(f.rows) :
                         f.rows[k].name = <<"A", " ">>
                         /\ f.rows[k].phone \in {PhoneTen, PhonePlus, PhoneShort}}

\* Uploads with and without the duplicate check, deletes, and the runs the
\* uploads trigger; the Store answers.
NextDuplicates ==
    \/ \E o \in Owners, file \in DupFiles : Upload(o, file)
    \/ \E o \in Owners, file \in DupFiles : UploadCheck(o, file)
    \/ \E u \in UploadIds : UploadInsert(u)
    \/ \E o \in Owners, i \in EntryIds : Delete(o, i)
    \/ \E o \in Owners : HandlerTrigger(o)
    \/ \E r \in RunIds : RunStep(r)
    \/ \E r \in RunIds : RunSaveFail(r)
    \/ \E r \in RunIds : RunCatchSaveFail(r)

SpecDuplicates == Init /\ [][NextDuplicates]_vars

\* ------------------------------------------------------------ the claims
RunsOf(o) == {r \in DOMAIN runs : runs[r].owner = o}

\* An entry that has been pending since it was inserted.
Untouched(i) == store[i].status = "pending" /\ store[i].callAttempts = 0

\* A processCallQueue(o) call was a no-op: the run of o is older than an
\* entry of o whose upload handler has already made its call.
SkippedCall(o) ==
    /\ triggers[o] = 0
    /\ \E r \in RunsOf(o) : \E i \in DOMAIN store :
          store[i].userId = o /\ Untouched(i) /\ i \notin runs[r].startPending

\* The run r is between taking an entry of its batch and finishing it.
InEntry(r) == runs[r].pc \in {"save1", "dispatch", "save2", "catchSave"}

\* The step ends the run r.
Ends(r) == r \in DOMAIN runs /\ r \notin DOMAIN runs'

\* C1: at most one run past the guard is active per owner, in every
\* interleaving of uploads, retries, retry-alls and direct calls.
C1_OneRunPerOwner == \A o \in Owners : Cardinality(RunsOf(o)) <= 1

\* Both owners have a run and one of them had a further call refused.
C1_Witness ==
    \E o \in Owners : SkippedCall(o) /\ \E p \in Owners \ {o} : RunsOf(p) # {}

\* C2: a processCallQueue call for an owner whose run is active changes
\* nothing: no Store write, no new run (so no Store read, no dispatch), no
\* attempt added, and the marker stays set.
C2_BlockedCallIsNoOp ==
    [][\A o \in Owners :
          (o \in activeProcessors /\ triggers'[o] < triggers[o])
          => /\ store' = store
             /\ runs' = runs
             /\ calls' = calls
             /\ activeProcessors' = activeProcessors]_vars

\* A call was refused while the run had a dispatch call in flight.
C2_Witness ==
    \E o \in Owners : SkippedCall(o) /\ \E r \in RunsOf(o) : runs[r].pc = "dispatch"

\* C3: the marker of an owner is set exactly while a run of the owner is
\* executing, and every run, whichever way it ends, releases it.
C3_MarkerReleased ==
    /\ [](\A o \in Owners : (o \in activeProcessors) <=> (RunsOf(o) # {}))
    /\ \A o \in Owners : (o \in activeProcessors) ~> (o \notin activeProcessors)

\* A run ended on a Store error (it left its entry 'processing') and the
\* marker is gone.
C3_Witness ==
    \E i \in DOMAIN store :
        store[i].status = "processing" /\ store[i].userId \notin activeProcessors

\* C4: every entry pending when a handler triggers processCallQueue gets
\* processed; so once no run is active and no handler has its call still
\* to make, the owner has no pending entry.
C4_TriggeredPendingProcessed ==
    \A o \in Owners :
        (o \notin activeProcessors /\ triggers[o] = 0) => PendingOf(store, o) = {}

\* C5: when a run ends on an empty fetch, every entry that was pending when
\* it started is completed or failed, with attempts >= 1.
C5_DrainedRunLeavesTerminal ==
    [][\A r \in RunIds :
          (Ends(r) /\ runs[r].pc = "found")
          => \A i \in runs[r].startPending \cap DOMAIN store' :
                /\ store'[i].status \in {"completed", "failed"}
                /\ store'[i].callAttempts >= 1]_vars

\* C6: with no retry so far, an entry is completed exactly when the
\* triggerOutboundCall made for it returned success with a call id, which
\* is then its bolnaCallId; otherwise failed with an errorMessage; and it
\* has one attempt.
C6_FirstRunOutcome ==
    nResets = 0 =>
        \A i \in DOMAIN store :
            store[i].status \in {"completed", "failed"} =>
                LET ok == calls[i] # <<>> /\ calls[i][Len(calls[i])].success
                IN /\ (store[i].status = "completed") <=> ok
                   /\ ok => store[i].bolnaCallId = calls[i][Len(calls[i])].callId
                   /\ ~ok => store[i].errorMessage # NoError
                   /\ store[i].callAttempts = 1

\* The step takes the run r past the entry it is on.
MovesOn(r) ==
    /\ r \in DOMAIN runs'
    /\ runs'[r].idx # runs[r].idx \/ runs'[r].pc \in {"delay", "pause"}

\* If the step takes the run r past an entry whose dispatch returned an error
\* or whose processing threw, the entry is persisted failed with a reason.
FailedAndOn(r) ==
    LET doc == runs[r].batch[runs[r].idx]
    IN (MovesOn(r) /\ doc.status = "failed")
       => /\ doc.id \in DOMAIN store'
          /\ store'[doc.id].status = "failed"
          /\ store'[doc.id].errorMessage # NoError

C8_StoreErrorLeavesRestPending ==
    [][\A r \in RunIds :
          (Ends(r) /\ runs[r].pc # "found")
          => /\ ~GuardBlocks(activeProcessors', runs[r].owner)
             /\ \A k \in (runs[r].idx + 1)..Len(runs[r].batch) :
                   LET doc == runs[r].batch[k]
                   IN doc.id \in DOMAIN store'
                      => /\ store'[doc.id].status = "pending"
                         /\ store'[doc.id].callAttempts = doc.callAttempts
                         /\ \E j \in DOMAIN FindPending(store', runs[r].owner) :
                               FindPending(store', runs[r].owner)[j].id = doc.id]_vars

\* A run ended on a Store error with an entry of its batch not started: the
\* owner has a stuck 'processing' entry, an untouched one, and no marker.
C8_Witness ==
    \E o \in Owners :
        /\ o \notin activeProcessors
        /\ \E i \in DOMAIN store : store[i].userId = o /\ store[i].status = "processing"
        /\ \E i \in DOMAIN store : store[i].userId = o /\ Untouched(i)

\* C9: two dispatch calls of the same batch are at least CALL_DELAY apart.
C9_PacedWithinBatch ==
    [][\A r \in RunIds :
          (r \in DOMAIN runs /\ r \in DOMAIN runs'
           /\ runs[r].pc = "save1" /\ runs'[r].pc = "dispatch" /\ runs[r].batchCalls > 0)
          => runs[r].elapsed - runs[r].lastCallAt >= CALL_DELAY]_vars

\* C10: the delay between the first and the last of the N dispatch calls of
\* a run is at least (N - 1) * CALL_DELAY.
C10_PacedAcrossRun ==
    \A r \in DOMAIN runs :
        runs[r].nCalls > 1 => runs[r].lastCallAt >= (runs[r].nCalls - 1) * CALL_DELAY

\* The step makes the run r take the next entry of its batch.
Attempts(r) ==
    /\ r \in DOMAIN runs /\ r \in DOMAIN runs'
    /\ runs'[r].pc = "save1"
    /\ runs'[r].idx # runs[r].idx

\* The ids of a batch, and whether they ascend.
BatchIds(batch) == {batch[k].id : k \in 1..Len(batch)}
Ascending(batch) == \A j, k \in 1..Len(batch) : j < k => batch[j].id < batch[k].id

\* C11 as stated: the entries of a batch are attempted in ascending creation
\* order, and whenever a run attempts an entry no earlier-created entry of the
\* owner is pending, also when uploads or retry resets occur during the run.
C11_OldestPendingFirst ==
    [][\A r \in RunIds :
          Attempts(r)
          => LET run == runs'[r]
                 doc == run.batch[run.idx]
             IN /\ run.idx = runs[r].idx + 1
                /\ Ascending(run.batch)
                /\ \A e \in PendingOf(store', run.owner) : e >= doc.id]_vars

\* C11 amended: a batch is the owner's oldest pending entries at the time of
\* its fetch (up to MAX_CONCURRENT_CALLS) and is attempted in ascending
\* creation order, also when uploads occur during the run; an earlier-created
\* entry can be pending while a later one is attempted only if a retry reset
\* it to pending after the batch was fetched.
C11_BatchOldestFirst ==
    [][\A r \in RunIds :
          /\ (r \in DOMAIN runs /\ r \in DOMAIN runs'
               /\ runs[r].pc = "find" /\ runs'[r].pc = "found")
             => LET batch == runs'[r].batch
                    pend == PendingOf(store, runs[r].owner)
                IN /\ BatchIds(batch) \subseteq pend
                   /\ Ascending(batch)
                   /\ Len(batch) <= MAX_CONCURRENT_CALLS
                   /\ \A e \in pend \ BatchIds(batch) :
                         /\ Len(batch) = MAX_CONCURRENT_CALLS
                         /\ \A i \in BatchIds(batch) : i < e
          /\ Attempts(r)
             => LET run == runs'[r]
                    doc == run.batch[run.idx]
                IN /\ run.idx = runs[r].idx + 1
                   /\ Ascending(run.batch)
                   /\ \A e \in PendingOf(store', run.owner) :
                         e < doc.id => (store'[e].callAttempts >= 1 /\ nResets >= 1)]_vars

\* A run takes the second entry of its batch while the first, which it left
\* failed, is pending again (a retry reset it during the delay).
C11_Witness ==
    \E r \in DOMAIN runs :
        /\ runs[r].pc = "save1"
        /\ runs[r].idx = 2
        /\ runs[r].batch[1].id \in PendingOf(store, runs[r].owner)

\* The entry as a retry reset leaves it: only the status changes.
AsReset(e) == [e EXCEPT !.status = "pending"]

\* C12: retry-all of an owner sets to pending exactly the entries of the
\* owner that are failed, leaves every other entry as it is, and answers
\* retriedCount = the number of entries reset.
C12_RetryAllResetsFailed ==
    [][\A o \in Owners :
          RetryAll(o)
          => LET reset == {i \in DOMAIN store : store[i].userId = o /\ store[i].status = "failed"}
             IN /\ DOMAIN store' = DOMAIN store
                /\ \A i \in DOMAIN store :
                      store'[i] = IF i \in reset THEN AsReset(store[i]) ELSE store[i]
                /\ RetryAllReply(store, o).code = 200
                /\ RetryAllReply(store, o).retriedCount = Cardinality(reset)]_vars

\* A reset has left an entry of one owner pending with an attempt made,
\* while the other owner has a failed entry.
C12_Witness ==
    /\ nResets > 0
    /\ \E i, j \in DOMAIN store :
          /\ store[i].userId # store[j].userId
          /\ store[i].status = "pending" /\ store[i].callAttempts >= 1
          /\ store[j].status = "failed"

\* C13: retry with an id list resets only the listed entries that are the
\* caller's and failed; the reset changes only the status; the handler goes
\* on to call processCallQueue for the owner; retriedCount is the number of
\* entries reset.
C13_RetryResetsListedFailed ==
    [][\A o \in Owners, callIds \in SUBSET EntryIds :
          Retry(o, callIds)
          => LET reset == {i \in DOMAIN store \cap callIds :
                              store[i].userId = o /\ store[i].status = "failed"}
             IN /\ DOMAIN store' = DOMAIN store
                /\ \A i \in DOMAIN store :
                      store'[i] = IF i \in reset THEN AsReset(store[i]) ELSE store[i]
                /\ \A i \in reset :
                      /\ store'[i].callAttempts = store[i].callAttempts
                      /\ store'[i].lastAttemptAt = store[i].lastAttemptAt
                      /\ store'[i].errorMessage = store[i].errorMessage
                      /\ store'[i].bolnaCallId = store[i].bolnaCallId
                /\ triggers'[o] = triggers[o] + 1
                /\ RetryReply(store, o, callIds).code = 200
                /\ RetryReply(store, o, callIds).retriedCount = Cardinality(reset)]_vars

\* One of two failed entries of an owner was reset and the other was not:
\* the reset entry is pending with its attempt and its errorMessage kept.
C13_Witness ==
    /\ nResets > 0
    /\ \E i, j \in DOMAIN store :
          /\ i # j /\ store[i].userId = store[j].userId
          /\ store[i].status = "pending" /\ store[i].callAttempts >= 1
          /\ store[i].errorMessage # NoError
          /\ store[j].status = "failed"
          /\ triggers[store[i].userId] > 0

\* C14: the processor never puts a failed entry back to pending, and as long
\* as no retry has reset anything each entry is dispatched at most once and
\* has at most one attempt.
C14_NoAutomaticRetry ==
    /\ [](nResets = 0 => \A i \in DOMAIN store :
                             Len(calls[i]) <= 1 /\ store[i].callAttempts <= 1)
    /\ [][nResets' = nResets
           => \A i \in DOMAIN store \cap DOMAIN store' :
                 store[i].status = "failed" => store'[i].status = "failed"]_vars

\* With no retry so far, a run has ended and left an entry failed after its
\* one dispatch call.
C14_Witness ==
    /\ nResets = 0
    /\ \E i \in DOMAIN store :
          /\ store[i].status = "failed"
          /\ Len(calls[i]) = 1
          /\ store[i].userId \notin activeProcessors

\* C16: bolnaCallId is written only with the call id of a successful
\* triggerOutboundCall for the entry, and once set it never changes.
C16_CallIdWrittenOnce ==
    [][\A i \in DOMAIN store \cap DOMAIN store' :
          store'[i].bolnaCallId # store[i].bolnaCallId
          => /\ store[i].bolnaCallId = NoCallId
             /\ \E k \in DOMAIN calls'[i] :
                   calls'[i][k].success /\ calls'[i][k].callId = store'[i].bolnaCallId]_vars

\* C17: every failed entry has an errorMessage and no completed entry has
\* one.
C17_ErrorMessageMatchesStatus ==
    \A i \in DOMAIN store :
        /\ store[i].status = "failed" => store[i].errorMessage # NoError
        /\ store[i].status = "completed" => store[i].errorMessage = NoError

\* An entry is completed on its second attempt: the errorMessage of the
\* first is gone.
C17_Witness ==
    \E i \in DOMAIN store :
        /\ store[i].status = "completed"
        /\ Len(calls[i]) >= 2 /\ ~calls[i][1].success
        /\ store[i].errorMessage = NoError

\* The status changes of the processor and of a retry reset.
ProcessorMoves == {<<"pending", "processing">>, <<"processing", "completed">>,
                   <<"processing", "failed">>}
ResetMoves == {<<"failed", "pending">>}

\* The step is the save of the per-entry catch of a run, for entry i.
CatchSaves(i) ==
    \E r \in DOMAIN runs :
        /\ runs[r].pc = "catchSave"
        /\ runs[r].batch[runs[r].idx].id = i
        /\ r \in DOMAIN runs' /\ runs'[r].pc # "catchSave"

\* C18 as stated: an entry is created pending, and its persisted status
\* changes only pending -> processing, processing -> completed, processing ->
\* failed (in a step of a run) and failed -> pending (in a retry reset).
C18_StatusMoves ==
    [][\A i \in DOMAIN store' :
          IF i \notin DOMAIN store THEN store'[i].status = "pending"
          ELSE LET move == <<store[i].status, store'[i].status>>
               IN \/ move[1] = move[2]
                  \/ move \in ProcessorMoves /\ runs' # runs
                  \/ move \in ResetMoves /\ nResets' = nResets + 1]_vars

\* C18 amended: as stated, and also pending -> failed, by the per-entry catch
\* of a run when the save of 'processing' was rejected.
C18_StatusMovesAndCatch ==
    [][\A i \in DOMAIN store' :
          IF i \notin DOMAIN store THEN store'[i].status = "pending"
          ELSE LET move == <<store[i].status, store'[i].status>>
               IN \/ move[1] = move[2]
                  \/ move \in ProcessorMoves /\ runs' # runs
                  \/ move \in ResetMoves /\ nResets' = nResets + 1
                  \/ move = <<"pending", "failed">> /\ CatchSaves(i)]_vars

\* An entry is failed without a dispatch call ever made for it: its save of
\* 'processing' was rejected and the catch's save went through.
C18_Witness ==
    \E i \in DOMAIN store :
        store[i].status = "failed" /\ calls[i] = <<>> /\ store[i].callAttempts = 1

\* C15: failed calls get at most 3 attempts: no entry's attempts exceed 3,
\* whichever retry path resets it.
C15_AtMostThreeAttempts ==
    \A i \in DOMAIN store : store[i].callAttempts <= DefaultMaxRetries

\* The step is one of a run, a retry, a retry-all, a delete or a detail
\* request of the owner o.
IssuedFor(o) ==
    \/ \E r \in RunIds : r \in DOMAIN runs /\ runs[r].owner = o /\ (RunStep(r) \/ RunFault(r))
    \/ HandlerTrigger(o)
    \/ DirectTrigger(o)
    \/ \E callIds \in SUBSET EntryIds : Retry(o, callIds)
    \/ RetryAll(o)
    \/ \E i \in EntryIds : Delete(o, i) \/ Interaction(o, i)
    \/ \E d \in DetailIds : d \in DOMAIN details /\ details[d].owner = o /\ InteractionStep(d)

\* C19: no step of a run, retry, retry-all, delete or detail request of one
\* owner changes, deletes or dispatches an entry of another owner.
C19_OwnersIsolated ==
    [][\A o \in Owners :
          IssuedFor(o)
          => \A i \in DOMAIN store :
                store[i].userId # o
                => /\ i \in DOMAIN store'
                   /\ store'[i] = store[i]
                   /\ calls'[i] = calls[i]]_vars

\* One owner's entry was dispatched and has a snapshot from a detail request,
\* while the other owner's entry is as it was uploaded.
C19_Witness ==
    \E i, j \in DOMAIN store :
        /\ store[i].userId # store[j].userId
        /\ store[i].snapshot # NoSnapshot
        /\ Untouched(j) /\ calls[j] = <<>> /\ store[j].snapshot = NoSnapshot

\* The rows of a file that have a name and a phone that passes validation.
GoodRows(file) ==
    {k \in 1..Len(file.rows) :
        /\ Trim(file.rows[k].name) # <<>>
        /\ Trim(file.rows[k].phone) # <<>>
        /\ validatePhoneNumber(Trim(file.rows[k].phone))}

\* C20: every entry has a name and a phone that passes validatePhoneNumber;
\* an upload inserts one pending entry with no attempt for each row that has
\* both, and none for the other rows, which it reports as errors under
\* their row numbers; the number of entries inserted is validRows.
C20_OnlyValidRowsPersisted ==
    /\ [](\A i \in DOMAIN store :
             store[i].name # <<>> /\ validatePhoneNumber(store[i].phone))
    /\ [][nextId' # nextId
           => \A o \in Owners, file \in Files :
                 (triggers'[o] # triggers[o] /\ Upload(o, file))
                 => LET new == DOMAIN store' \ DOMAIN store
                        reply == UploadReply(o, file)
                        first == IF file.ext = ".csv" THEN 1 ELSE 2
                    IN /\ Cardinality(new) = Cardinality(GoodRows(file))
                       /\ reply.code = 201
                       /\ reply.validRows = Cardinality(new)
                       /\ reply.savedContacts = Cardinality(new)
                       /\ \A i \in new :
                             /\ store'[i].userId = o
                             /\ store'[i].status = "pending"
                             /\ store'[i].callAttempts = 0
                             /\ \E k \in GoodRows(file) :
                                   /\ store'[i].name = Trim(file.rows[k].name)
                                   /\ store'[i].phone = Trim(file.rows[k].phone)
                       /\ {reply.errors[e].row : e \in 1..Len(reply.errors)}
                             = {k - 1 + first : k \in (1..Len(file.rows)) \ GoodRows(file)}]_vars

\* An upload has inserted a single entry, whose phone is the one with a
\* country code (digits, spaces and dashes), and it is still as inserted.
C20_Witness ==
    /\ nextId = 2
    /\ \E i \in DOMAIN store :
          store[i].phone = PhonePlus /\ store[i].name = <<"A">> /\ Untouched(i)

\* The entries of an owner, and whether one of them has the phone.
EntriesOf(st, o) == {i \in DOMAIN st : st[i].userId = o}
HasPhone(st, o, ph) == \E i \in EntriesOf(st, o) : st[i].phone = ph

\* The step inserts one pending entry of the owner for each valid row, the
\* rows flagged as duplicates included.
InsertsEveryValidRow(o, reply) ==
    /\ reply.code = 201
    /\ Cardinality(EntriesOf(store', o)) = Cardinality(EntriesOf(store, o)) + reply.validRows
    /\ \A i \in DOMAIN store' \ DOMAIN store : store'[i].userId = o /\ Untouched(i)'
    /\ \A d \in 1..Len(reply.duplicates) :
          \E i \in DOMAIN store' \ DOMAIN store : store'[i].phone = reply.duplicates[d]

\* The step is an upload of the owner without the duplicate check.
PlainUpload(o, file) ==
    /\ nextId' # nextId /\ uploads' = uploads /\ triggers'[o] # triggers[o]
    /\ Upload(o, file)

\* C21 as stated: an upload lists in its answer's duplicates every parsed
\* phone that an entry of the owner already has, and still inserts every
\* valid row as a new pending entry.
C21_DuplicatesReported ==
    [][/\ (nextId' # nextId /\ uploads' = uploads)
          => \A o \in Owners, file \in DupFiles :
             PlainUpload(o, file)
             => /\ InsertsEveryValidRow(o, UploadReply(o, file))
                /\ \A k \in 1..Len(Parsed[file].contacts) :
                      HasPhone(store, o, Parsed[file].contacts[k].phone)
                      => \E d \in 1..Len(UploadReply(o, file).duplicates) :
                            UploadReply(o, file).duplicates[d] = Parsed[file].contacts[k].phone
       /\ \A u \in UploadIds :
             (DOMAIN uploads' # DOMAIN uploads /\ UploadInsert(u))
             => /\ InsertsEveryValidRow(uploads[u].owner, UploadCheckedReply(u))
                /\ \A k \in 1..Len(Parsed[uploads[u].file].contacts) :
                      HasPhone(store, uploads[u].owner, Parsed[uploads[u].file].contacts[k].phone)
                      => \E d \in 1..Len(UploadCheckedReply(u).duplicates) :
                            UploadCheckedReply(u).duplicates[d]
                               = Parsed[uploads[u].file].contacts[k].phone]_vars

\* C21 amended: an upload that asks for the duplicate check
\* (checkDuplicates = 'true') lists in its answer's duplicates, once per row,
\* the parsed phones that an entry of the owner had when the check read the
\* Store; an upload that does not ask for it answers with no duplicates; in
\* both cases every valid row is inserted as a new pending entry, so the
\* owner's entry count grows by the number of valid rows.
C21_DuplicatesReportedOnRequest ==
    [][/\ (nextId' # nextId /\ uploads' = uploads)
          => \A o \in Owners, file \in DupFiles :
                PlainUpload(o, file)
                => /\ InsertsEveryValidRow(o, UploadReply(o, file))
                   /\ UploadReply(o, file).duplicates = <<>>
                   /\ UploadReply(o, file).duplicatesFound = 0
       /\ (nextId' = nextId /\ uploads' # uploads)
          => \A o \in Owners, file \in DupFiles :
                UploadCheck(o, file)
                => \A u \in DOMAIN uploads' \ DOMAIN uploads :
                      LET contacts == Parsed[file].contacts
                          flagged == {k \in 1..Len(contacts) : HasPhone(store, o, contacts[k].phone)}
                          dup == uploads'[u].duplicates
                      IN /\ Len(dup) = Cardinality(flagged)
                         /\ {dup[d] : d \in 1..Len(dup)} = {contacts[k].phone : k \in flagged}
                         /\ store' = store
       /\ \A u \in UploadIds :
             (DOMAIN uploads' # DOMAIN uploads /\ UploadInsert(u))
             => /\ InsertsEveryValidRow(uploads[u].owner, UploadCheckedReply(u))
                /\ UploadCheckedReply(u).duplicates = uploads[u].duplicates
                /\ UploadCheckedReply(u).duplicatesFound = Len(uploads[u].duplicates)]_vars

\* An upload has found the phone of its file to be a duplicate of an entry
\* of the owner that is still in the Store, and has its insert still to make.
C21_Witness ==
    \E u \in DOMAIN uploads :
        /\ Len(uploads[u].duplicates) = 1
        /\ HasPhone(store, uploads[u].owner, uploads[u].duplicates[1])

\* The step is the continuation of a handler of the owner after its Store
\* write: processCallQueue is called without await and the answer is sent.
Answers(o) == triggers'[o] < triggers[o]

\* C22: the upload, retry and retry-all handlers answer without waiting for
\* the run they trigger: when the answer is sent the run has read nothing
\* from the Store, has written nothing and has made no dispatch call; and no
\* step of a run, a failing one included, reaches back to a handler or
\* leaves the run other than through its finally block.
C22_AnswerDoesNotWaitForRun ==
    [][/\ \A o \in Owners :
             Answers(o)
             => /\ store' = store
                /\ calls' = calls
                /\ \A r \in DOMAIN runs : r \in DOMAIN runs' /\ runs'[r] = runs[r]
                /\ \A r \in DOMAIN runs' \ DOMAIN runs :
                      /\ runs'[r].owner = o
                      /\ runs'[r].pc = "find"
                      /\ runs'[r].batch = <<>>
                      /\ runs'[r].nCalls = 0
       /\ \A r \in RunIds :
             (r \in DOMAIN runs /\ runs' # runs /\ (RunStep(r) \/ RunFault(r)))
             => /\ triggers' = triggers
                /\ uploads' = uploads
                /\ nextId' = nextId
                /\ Ends(r) => runs[r].owner \notin activeProcessors']_vars

\* A handler has answered and the run it started, which has made no call
\* yet, is about to have its find rejected by the Store.
C22_Witness ==
    \E r \in DOMAIN runs :
        /\ runs[r].pc = "find" /\ runs[r].nCalls = 0
        /\ ~storeUp
        /\ triggers[runs[r].owner] = 0
        /\ PendingOf(store, runs[r].owner) # {}

StatusThrows(d) ==
    d \in DOMAIN details /\ details[d].pc = "status" /\ d \notin DOMAIN details'

\* The fields of an answer that come from the snapshot.
SnapshotOf(reply) ==
    [callStatus |-> reply.callStatus, transcript |-> reply.transcript,
     recordingUrl |-> reply.recordingUrl]

\* C24 as stated: when getCallStatus fails for an entry that has the snapshot
\* of an earlier successful fetch, the answer is that snapshot, marked as
\* cached, and not an error.
C24_CachedSnapshotOnError ==
    [][\A d \in DetailIds :
          (StatusThrows(d) /\ details[d].doc.snapshot # NoSnapshot)
          => LET reply == InteractionErrorReply(details[d].doc)
             IN /\ reply.code = 200
                /\ reply.cached
                /\ SnapshotOf(reply) = details[d].doc.snapshot]_vars

\* C24 amended: a successful fetch stores its snapshot on the entry; when
\* getCallStatus fails, the answer is the snapshot the entry had when the
\* request read it, marked as cached, provided that snapshot has a
\* transcript or a recording URL; otherwise (no snapshot, or one with neither)
\* the answer is the error 500.
C24_CachedSnapshotIfTranscript ==
    [][\A d \in DetailIds :
          /\ (d \notin DOMAIN details /\ d \in DOMAIN details')
             => LET doc == details'[d].doc
                IN doc.id \in DOMAIN store /\ doc.snapshot = store[doc.id].snapshot
          /\ (d \in DOMAIN details /\ details[d].pc = "save" /\ d \notin DOMAIN details'
                /\ SaveResolves(store, details[d].doc))
             => /\ store'[details[d].doc.id].snapshot = details[d].doc.snapshot
                /\ details[d].doc.snapshot \in ExecutionData
          /\ StatusThrows(d)
             => LET doc == details[d].doc
                    reply == InteractionErrorReply(doc)
                IN /\ store' = store
                   /\ IF doc.snapshot.transcript # NoText \/ doc.snapshot.recordingUrl # NoText
                      THEN /\ reply.code = 200
                           /\ reply.cached
                           /\ SnapshotOf(reply) = doc.snapshot
                           /\ doc.snapshot \in ExecutionData
                      ELSE reply.code = 500]_vars

\* A detail request is waiting for getCallStatus for an entry that has the
\* transcript of an earlier fetch.
C24_Witness ==
    \E d \in DOMAIN details :
        /\ details[d].pc = "status"
        /\ details[d].doc.snapshot.transcript # NoText
        /\ details[d].doc.id \in DOMAIN store
        /\ store[details[d].doc.id].snapshot = details[d].doc.snapshot

\* C25: formatPhoneNumber(p) is '+' and the digits of p when p starts with
\* '+'; otherwise '+91' and the digits when p has exactly 10 digits;
\* otherwise '+' and the digits; so "9876543210" gives "+919876543210" and
\* "+1 202-555-0173" gives "+12025550173"; the result has one leading '+'
\* and only digits after it.
C25_FormatPhoneNumber ==
    /\ probe # NoProbe
       => LET p == probe.phone
              f == probe.formatted
          IN /\ f = IF Len(p) > 0 /\ p[1] = "+" THEN <<"+">> \o Digits(p)
                    ELSE IF Len(Digits(p)) = 10 THEN <<"+", "9", "1">> \o Digits(p)
                    ELSE <<"+">> \o Digits(p)
             /\ Len(f) >= 1 /\ f[1] = "+"
             /\ \A k \in 2..Len(f) : IsDigit(f[k])
    /\ formatPhoneNumber(<<"9", "8", "7", "6", "5", "4", "3", "2", "1", "0">>)
          = <<"+", "9", "1", "9", "8", "7", "6", "5", "4", "3", "2", "1", "0">>
    /\ formatPhoneNumber(PhonePlus) = <<"+", "1", "2", "0", "2", "5", "5", "5", "0", "1", "7", "3">>

\* The formatter was given ten digits with a dash and no '+': the result has
\* the default country code and the ten digits.
C25_Witness ==
    /\ probe.phone = <<"9", "8", "7", "-", "6", "5", "4", "3", "2", "1", "0">>
    /\ probe.formatted = <<"+", "9", "1", "9", "8", "7", "6", "5", "4", "3", "2", "1", "0">>

\* A phone with 10 to 15 digits of which the first is not 0.
Acceptable(p) ==
    /\ Len(Digits(p)) >= 10 /\ Len(Digits(p)) <= 15
    /\ Digits(p)[1] # "0"

\* C26: validatePhoneNumber(p) accepts exactly the phones with 10 to 15
\* digits of which the first is not 0; a phone it rejects is in no entry, an
\* upload inserts no entry for its row, and every phone given to the
\* formatter and dialled is the phone of an entry.
C26_OnlyValidPhonesDialled ==
    /\ [](/\ \A p \in PhoneInputs : validatePhoneNumber(p) <=> Acceptable(p)
          /\ \A row \in Rows : validatePhoneNumber(Trim(row.phone)) <=> Acceptable(Trim(row.phone))
          /\ ~validatePhoneNumber(PhoneShort)
          /\ \A i \in DOMAIN store : Acceptable(store[i].phone)
          /\ \A i \in DOMAIN calls :
                \A k \in 1..Len(calls[i]) :
                   /\ i \in DOMAIN store
                   /\ calls[i][k].to = Dial(formatPhoneNumber(store[i].phone)))
    /\ [][nextId' # nextId
           => \A o \in Owners, file \in Files :
                 (triggers'[o] # triggers[o] /\ Upload(o, file))
                 => LET new == DOMAIN store' \ DOMAIN store
                        kept == {k \in 1..Len(file.rows) :
                                    /\ Trim(file.rows[k].name) # <<>>
                                    /\ Acceptable(Trim(file.rows[k].phone))}
                    IN /\ Cardinality(new) = Cardinality(kept)
                       /\ {store'[i].phone : i \in new} = {Trim(file.rows[k].phone) : k \in kept}]_vars

\* The phone with a country code, spaces and dashes passed validation, was
\* formatted and dialled as "+12025550173".
C26_Witness ==
    \E i \in DOMAIN store :
        /\ store[i].phone = PhonePlus
        /\ Len(calls[i]) = 1
        /\ calls[i][1].to = <<"+", "1", "2", "0", "2", "5", "5", "5", "0", "1", "7", "3">>

\* C27: in every reachable state, whatever the outcomes of the saves and of
\* the dispatch calls, an entry has a bolnaCallId exactly when it is
\* completed; so no entry is failed after one of its dispatch calls
\* succeeded.
C27_CallIdIffCompleted ==
    \A i \in DOMAIN store :
        /\ (store[i].bolnaCallId # NoCallId) <=> (store[i].status = "completed")
        /\ store[i].status = "failed"
           => \A k \in 1..Len(calls[i]) : ~calls[i][k].success

\* The step is the invocation of triggerOutboundCall by the run r.
Invokes(r) ==
    /\ r \in DOMAIN runs /\ r \in DOMAIN runs'
    /\ runs[r].pc = "save1" /\ runs'[r].pc = "dispatch"

\* C28: when triggerOutboundCall is invoked for an entry, the entry is
\* persisted with status processing, with its attempts incremented for this
\* attempt and with lastAttemptAt set; while the call is in flight the
\* entry, if it still exists, stays so; no call is made for an entry whose
\* persisted status is pending, completed or failed.
C28_ProcessingBeforeDispatch ==
    /\ [](\A r \in DOMAIN runs :
             runs[r].pc = "dispatch"
             => LET doc == runs[r].batch[runs[r].idx]
                IN doc.id \in DOMAIN store
                   => /\ store[doc.id].status = "processing"
                      /\ store[doc.id].callAttempts = doc.callAttempts
                      /\ store[doc.id].callAttempts >= Len(calls[doc.id]) + 1
                      /\ store[doc.id].lastAttemptAt)
    /\ [][/\ \A r \in RunIds :
                Invokes(r)
                => LET doc == runs[r].batch[runs[r].idx]
                   IN /\ doc.id \in DOMAIN store /\ doc.id \in DOMAIN store'
                      /\ store'[doc.id].status = "processing"
                      /\ store'[doc.id].callAttempts = store[doc.id].callAttempts + 1
                      /\ store'[doc.id].lastAttemptAt
          /\ \A i \in DOMAIN calls :
                calls'[i] # calls[i]
                => \E r \in DOMAIN runs :
                      /\ runs[r].pc = "dispatch"
                      /\ runs[r].batch[runs[r].idx].id = i
                      /\ i \in DOMAIN store => store[i].status = "processing"]_vars

\* A second call is in flight for an entry that a retry reset: it is
\* persisted processing with two attempts.
C28_Witness ==
    \E r \in DOMAIN runs :
        /\ runs[r].pc = "dispatch"
        /\ LET i == runs[r].batch[runs[r].idx].id
           IN /\ i \in DOMAIN store
              /\ store[i].status = "processing"
              /\ store[i].callAttempts = 2
              /\ Len(calls[i]) = 1

\* The calls of triggerOutboundCall made for an entry: those that returned
\* and the one in flight.
Invocations(i) ==
    Len(calls[i]) + Cardinality({r \in DOMAIN runs : /\ runs[r].pc = "dispatch"
                                                     /\ runs[r].batch[runs[r].idx].id = i})

\* The step is a save, by a run that has taken the entry i, that resolves.
TakingSaved(i) ==
    \E r \in DOMAIN runs :
        /\ runs[r].pc \in {"save1", "catchSave"}
        /\ runs[r].batch[runs[r].idx].id = i
        /\ SaveResolves(store, runs[r].batch[runs[r].idx])
        /\ r \in DOMAIN runs' /\ runs'[r] # runs[r]

\* C29: the attempts of an entry never decrease and no retry reset changes
\* them; they grow by exactly 1 when a run takes the entry (with the save
\* that persists it), and by nothing else; the calls of triggerOutboundCall
\* made for an entry are at most its attempts; lastAttemptAt is set whenever
\* attempts >= 1.
C29_AttemptsOnlyGrow ==
    /\ [](\A i \in DOMAIN store :
             /\ store[i].callAttempts >= 0
             /\ Invocations(i) <= store[i].callAttempts
             /\ store[i].callAttempts >= 1 => store[i].lastAttemptAt)
    /\ [][/\ \A i \in DOMAIN store \cap DOMAIN store' :
                /\ store'[i].callAttempts \in {store[i].callAttempts, store[i].callAttempts + 1}
                /\ store'[i].callAttempts # store[i].callAttempts => TakingSaved(i)
                /\ nResets' # nResets => store'[i].callAttempts = store[i].callAttempts
          /\ \A r \in RunIds :
                /\ Attempts(r)
                   => LET doc == runs'[r].batch[runs'[r].idx]
                      IN doc.id \in DOMAIN store' => doc.callAttempts = store'[doc.id].callAttempts + 1
                /\ Invokes(r)
                   => LET doc == runs[r].batch[runs[r].idx]
                      IN store'[doc.id].callAttempts = store[doc.id].callAttempts + 1]_vars

\* An entry whose first attempt ended in the per-entry catch without a call
\* was reset and completed by its second attempt: two attempts, one call.
C29_Witness ==
    \E i \in DOMAIN store :
        /\ store[i].status = "completed"
        /\ store[i].callAttempts = 2
        /\ Len(calls[i]) = 1

\* C30: every run terminates (uploads and retry resets are finitely many);
\* when a run has gone through a batch, the batch was not empty and each of
\* its entries has left pending (only a retry reset made since can have put
\* one back), so each iteration reduces the owner's pending entries; the
\* only exit of the loop that is not an error is a fetch of zero entries.
C30_RunsTerminate ==
    /\ \A r \in RunIds : (r \in DOMAIN runs) ~> (r \notin DOMAIN runs)
    /\ [](\A r \in DOMAIN runs :
             runs[r].pc = "pause"
             => /\ Len(runs[r].batch) >= 1
                /\ \A k \in 1..Len(runs[r].batch) :
                      LET i == runs[r].batch[k].id
                      IN (i \in DOMAIN store /\ store[i].status = "pending")
                         => (store[i].callAttempts >= 1 /\ nResets >= 1))
    /\ [][\A r \in RunIds :
             Ends(r)
             => \/ runs[r].pc = "found" /\ runs[r].batch = <<>>
                \/ runs[r].pc = "find" /\ ~storeUp
                \/ runs[r].pc = "catchSave"
                   /\ ~SaveResolves(store, runs[r].batch[runs[r].idx])]_vars

\* A run that has processed a batch of two entries has fetched again and
\* received zero entries: it is about to leave the loop.
C30_Witness ==
    \E r \in DOMAIN runs :
        /\ runs[r].pc = "found"
        /\ runs[r].batch = <<>>
        /\ runs[r].processedCount = 2
        /\ PendingOf(store, runs[r].owner) = {}

\* The step starts a run for owner o / ends a run of owner o.
StartsRunOf(o) == \E r \in DOMAIN runs' \ DOMAIN runs : runs'[r].owner = o
EndsRunOf(o) == \E r \in DOMAIN runs \ DOMAIN runs' : runs[r].owner = o

\* C31: a run active for an owner never keeps a run of another owner from
\* starting: a processCallQueue(v) call made while v has no marker starts a
\* run for v whatever runs the other owners have, such a call is possible
\* whenever a handler of v is about to make it, and the marker of an owner
\* is set only by the start and cleared only by the end of a run of that
\* owner.
C31_OwnersRunIndependently ==
    /\ [](\A v \in Owners :
             (triggers[v] > 0 /\ v \notin activeProcessors)
             => ENABLED (HandlerTrigger(v) /\ StartsRunOf(v)))
    /\ [][\A v \in Owners :
             /\ ((HandlerTrigger(v) \/ DirectTrigger(v)) /\ v \notin activeProcessors)
                => (StartsRunOf(v) /\ v \in activeProcessors')
             /\ (v \in activeProcessors' /\ v \notin activeProcessors) => StartsRunOf(v)
             /\ (v \in activeProcessors /\ v \notin activeProcessors') => EndsRunOf(v)
             /\ (StartsRunOf(v) \/ EndsRunOf(v))
                => activeProcessors' \ {v} = activeProcessors \ {v}]_vars

\* Both owners have a run in the middle of an entry at the same time.
C31_Witness ==
    \E r1, r2 \in DOMAIN runs :
        /\ runs[r1].owner # runs[r2].owner
        /\ InEntry(r1) /\ InEntry(r2)
        /\ {runs[r1].owner, runs[r2].owner} \subseteq activeProcessors

\* The entries of owner o persisted as processing.
ProcessingOf(st, o) == {i \in DOMAIN st : st[i].userId = o /\ st[i].status = "processing"}

\* C32: at any moment at most one entry of an owner is persisted as
\* processing and at most one run of the owner is waiting for
\* triggerOutboundCall to return.
C32_OneProcessingPerOwner ==
    \A o \in Owners :
        /\ Cardinality(ProcessingOf(store, o)) <= 1
        /\ Cardinality({r \in RunsOf(o) : runs[r].pc = "dispatch"}) <= 1

\* The processor's fields of a persisted entry.
ProcessorFields(e) ==
    [status |-> e.status, callAttempts |-> e.callAttempts, lastAttemptAt |-> e.lastAttemptAt,
     bolnaCallId |-> e.bolnaCallId, errorMessage |-> e.errorMessage]

\* The step belongs to the detail request d.
DetailMoves(d) == d \in DOMAIN details /\ (d \notin DOMAIN details' \/ details'[d] # details[d])

\* C33: a detail fetch writes only the interaction snapshot: its findOne and
\* its getCallStatus leave the Store alone, and its save, also when a run or
\* a retry reset has changed the entry since the findOne, leaves the status,
\* attempts, lastAttemptAt, bolnaCallId and errorMessage of every entry as
\* they are persisted and creates or deletes no entry.
C33_DetailWritesSnapshotOnly ==
    [][/\ DOMAIN details' # DOMAIN details /\ DOMAIN details \subseteq DOMAIN details'
          => store' = store
       /\ \A d \in DetailIds :
             DetailMoves(d)
             => /\ DOMAIN store' = DOMAIN store
                /\ \A i \in DOMAIN store :
                      /\ ProcessorFields(store'[i]) = ProcessorFields(store[i])
                      /\ i # details[d].doc.id => store'[i] = store[i]
                /\ (d \notin DOMAIN details' /\ details[d].pc = "save"
                    /\ SaveResolves(store, details[d].doc))
                   => store'[details[d].doc.id].snapshot = details[d].doc.snapshot]_vars

\* A detail request about to save holds a status the Store no longer has
\* (the entry was reset and taken by a run since the findOne), and an
\* earlier detail fetch has already written the entry's snapshot.
C33_Witness ==
    \E d \in DOMAIN details :
        LET doc == details[d].doc
        IN /\ details[d].pc = "save"
           /\ SaveResolves(store, doc)
           /\ doc.status = "failed"
           /\ store[doc.id].status = "processing"
           /\ store[doc.id].callAttempts = doc.callAttempts + 1
           /\ store[doc.id].snapshot # NoSnapshot

\* C34: an entry is persisted as processing only while a run of its owner
\* is active: whenever an owner has no run, none of the owner's entries is
\* processing.
C34_ProcessingOnlyWhileRunning ==
    \A o \in Owners :
        (RunsOf(o) = {} /\ o \notin activeProcessors) => ProcessingOf(store, o) = {}

\* C35: no entry is dispatched again after a dispatch that succeeded: in the
\* sequence of the calls of triggerOutboundCall made for an entry, one that
\* returned success with a call id is the last.
C35_NoCallAfterSuccess ==
    \A i \in DOMAIN calls :
        \A k \in 1..Len(calls[i]) :
            (calls[i][k].success /\ calls[i][k].callId # NoCallId) => k = Len(calls[i])

\* The step belongs to the run r.
RunMoves(r) == r \in DOMAIN runs /\ (r \notin DOMAIN runs' \/ runs'[r] # runs[r])

\* No entry is re-created: an entry that appears in the Store is a new one,
\* and no step of a run creates or deletes an entry.
NoEntryRecreated ==
    /\ \A i \in DOMAIN store' \ DOMAIN store : i >= nextId
    /\ \A r \in RunIds : RunMoves(r) => DOMAIN store' = DOMAIN store

\* C36: a delete made while a run of the owner is active never re-creates
\* the entry, and it does not stop the run from processing the owner's
\* remaining pending entries: while the Store answers, a run that ends
\* otherwise than on an empty fetch leaves no entry of its batch that it had
\* not started pending.
C36_DeleteLeavesRunGoing ==
    [][/\ NoEntryRecreated
       /\ \A r \in RunIds :
             (Ends(r) /\ storeUp)
             => \/ runs[r].pc = "found" /\ runs[r].batch = <<>>
                \/ \A k \in (runs[r].idx + 1)..Len(runs[r].batch) :
                      runs[r].batch[k].id \notin PendingOf(store', runs[r].owner)]_vars

\* The fields of an answer that carries an error and no count.
ErrorAnswer(reply) == reply.code \in {400, 404} /\ DOMAIN reply = {"code", "error"}

\* C37: a retry or retry-all request that matches no failed entry of the
\* caller is answered with an error and no count, changes nothing in the
\* Store and does not go on to call processCallQueue: a retry handler that
\* goes on to its trigger has reset at least one failed entry of the caller.
C37_UnmatchedRetryIsNoOp ==
    /\ [](\A o \in Owners :
             /\ RetryAllMatch(store, o) = {} => ErrorAnswer(RetryAllReply(store, o))
             /\ \A callIds \in SUBSET EntryIds :
                   RetryMatch(store, o, callIds) = {} => ErrorAnswer(RetryReply(store, o, callIds)))
    /\ [][\A o \in Owners :
             /\ RetryAllMatch(store, o) = {} => ~RetryAllHandler(o)
             /\ \A callIds \in SUBSET EntryIds :
                   RetryMatch(store, o, callIds) = {} => ~RetryHandler(o, callIds)
             /\ (triggers'[o] > triggers[o] /\ nextId' = nextId)
                => /\ nResets' = nResets + 1
                   /\ \E i \in FailedOf(store, o) : store'[i].status = "pending"
             /\ (nResets' # nResets /\ FailedOf(store, o) = {})
                => \A i \in DOMAIN store : store[i].userId = o => store'[i] = store[i]]_vars

\* An owner whose only entry is completed, with no run and no handler on
\* its way to the processor: retry-all and a retry of that entry match
\* nothing and are answered 404; the other owner has a failed entry.
C37_Witness ==
    \E o \in Owners, i \in DOMAIN store :
        /\ store[i].userId = o /\ store[i].status = "completed"
        /\ FailedOf(store, o) = {}
        /\ RetryAllReply(store, o).code = 404
        /\ RetryReply(store, o, {i}).code = 404
        /\ triggers[o] = 0 /\ RunsOf(o) = {}
        /\ \E j \in DOMAIN store : store[j].userId # o /\ store[j].status = "failed"

\* C38: the number sent to the provider for an entry is
\* formatPhoneNumber(entry.phone): the normalisation inside
\* triggerOutboundCall leaves a formatted number as it is, and formatting a
\* formatted number gives the same number, for every phone that passes
\* validation.
C38_DialledIsFormatted ==
    /\ \A p \in PhoneInputs \cup {Trim(row.phone) : row \in Rows} :
          validatePhoneNumber(p)
          => /\ formatPhoneNumber(formatPhoneNumber(p)) = formatPhoneNumber(p)
             /\ Dial(formatPhoneNumber(p)) = formatPhoneNumber(p)
    /\ \A i \in DOMAIN calls :
          \A k \in 1..Len(calls[i]) :
             calls[i][k].posted
             => /\ i \in DOMAIN store
                /\ calls[i][k].to = formatPhoneNumber(store[i].phone)
                /\ formatPhoneNumber(calls[i][k].to) = calls[i][k].to

\* The entry uploaded as " 9876543210" is stored as "9876543210" and was
\* dialled as "+919876543210", which the formatter leaves as it is.
C38_Witness ==
    \E i \in DOMAIN store :
        /\ store[i].phone = Trim(PhoneTen)
        /\ Len(calls[i]) = 1
        /\ calls[i][1].posted
        /\ calls[i][1].to = <<"+", "9", "1">> \o store[i].phone
        /\ formatPhoneNumber(calls[i][1].to) = calls[i][1].to

====
